---- MODULE Spec2Model ----
(***************************************************************************)
(* A model of src/pipeline.py: main and, of class FeedProcessor, the       *)
(* Collector (fetch_feeds with generate_search_queries), the Screener      *)
(* (_quick_ai_screening), the Classifier (identify_ai_content with         *)
(* _validate_ai_response), the Ranker (_rank_articles), the Selector       *)
(* (select_articles), save_brief_data and the text helpers they call.      *)
(*                                                                         *)
(* Text is a sequence of one-character strings.  A JSON value is a record  *)
(* [type, str, list]: type is one of "true", "false", "int", "null",       *)
(* "str", "list"; str holds the characters of a string value and list the  *)
(* elements of a list-of-strings value.                                    *)
(*                                                                         *)
(* The module holds several specifications over one set of variables:      *)
(*   SpecValidate  applies _validate_ai_response to bounded payloads,      *)
(*   SpecScreen    applies _quick_ai_screening to bounded entries,         *)
(*   SpecLimit     applies _limit_words to bounded texts and budgets,      *)
(*   SpecSanitize  applies _sanitize_text to bounded texts,                *)
(*   SpecOrder     applies _rank_articles, _calculate_recency_score and    *)
(*                 select_articles to bounded lists,                       *)
(*   SpecQueries   calls generate_search_queries and                       *)
(*                 refresh_search_queries on one processor,                *)
(*   SpecClassify  runs identify_ai_content over a bounded candidate list, *)
(*                 with a classification service whose calls may raise,    *)
(*   SpecMalformed runs it with a service that always answers but may      *)
(*                 answer with text that is no JSON,                       *)
(*   SpecWrapped   runs it with a service that wraps its JSON object,      *)
(*   SpecFetch     runs fetch_feeds over one call of every source kind,    *)
(*   SpecWindow    runs it with items of different ages,                   *)
(*   SpecCaps      runs it with answers at and above the result caps,      *)
(*   SpecMain      runs main: fetch_feeds, identify_ai_content,            *)
(*                 select_articles, save_brief_data and generate_html.     *)
(* The variables of the parts that do not run stay at their initial        *)
(* values.                                                                 *)
(***************************************************************************)

EXTENDS Integers, Sequences, FiniteSets, Bags, TLC

VARIABLES
    \* _validate_ai_response
    v_result,       \* the payload handed to _validate_ai_response
    v_pc,           \* "call" before the call, "returned" after it
    v_ret,          \* the value it returned
    \* identify_ai_content
    entries,        \* the candidate list passed in (records are enriched in place)
    idx,            \* position of the outer loop: for entry in entries
    attempt,        \* the inner loop variable: for attempt in range(3)
    calls,          \* calls[i]: requests sent to the classification service for entry i
    ai_entries,     \* the list the loop appends accepted entries to
    c_log,          \* the bag of warning and error records handed to self.logger
    c_pc,           \* "loop", "returned" or "raised"
    c_ret,          \* the list identify_ai_content returned
    \* fetch_feeds
    all_entries,    \* the gathered list
    google_configured, \* self.google_api_key and self.google_cx are both set
    f_step,         \* position in SourcePlan
    f_log,          \* the records handed to self.logger, in order
    f_pc,           \* "loop", "returned" or "raised"
    f_ret,          \* the list fetch_feeds returned
    \* _quick_ai_screening
    s_entry,        \* the entry handed to _quick_ai_screening
    s_pc,           \* "call" before the call, "returned" after it
    s_ret,          \* the value it returned
    \* main
    api_key,        \* os.environ.get('OPENROUTER_API_KEY')
    m_pc,           \* the statement of main that runs next, or "done", "raised"
    brief_date,     \* feed_processor.brief_date
    selected_articles, \* the list select_articles returned
    brief_file,     \* the document in briefs/{brief_date}.json
    html_file,      \* the page in site/index.html
    \* _rank_articles, _calculate_recency_score and select_articles
    o_entries,      \* the list handed to the function
    o_pc,           \* "call" before the call, the function called after it
    o_ret,          \* the list _rank_articles or select_articles returned
    o_scores,       \* the value _calculate_recency_score returned for each entry
    \* _sanitize_text and _limit_words
    t_text,         \* the text handed to the function
    t_budget,       \* max_words (0 when _sanitize_text is called)
    t_pc,           \* "call" before the call, the function called after it
    t_ret,          \* the text it returned
    \* generate_search_queries and refresh_search_queries
    q_cache,        \* self._generated_queries_cache
    q_requests,     \* requests sent to the query-generation service
    q_pc,           \* "ready", or the method that returned last
    q_ret           \* the list the last call returned

v_vars == <<v_result, v_pc, v_ret>>
c_vars == <<entries, idx, attempt, calls, ai_entries, c_log, c_pc, c_ret>>
f_vars == <<all_entries, google_configured, f_step, f_log, f_pc, f_ret>>
s_vars == <<s_entry, s_pc, s_ret>>
m_vars == <<api_key, m_pc, brief_date, selected_articles, brief_file, html_file>>
o_vars == <<o_entries, o_pc, o_ret, o_scores>>
t_vars == <<t_text, t_budget, t_pc, t_ret>>
q_vars == <<q_cache, q_requests, q_pc, q_ret>>
vars == <<v_vars, c_vars, f_vars, s_vars, m_vars, o_vars, t_vars, q_vars>>

\* what each part leaves alone
v_others == <<c_vars, f_vars, s_vars, m_vars, o_vars, t_vars, q_vars>>
c_others == <<v_vars, f_vars, s_vars, m_vars, o_vars, t_vars, q_vars>>
f_others == <<v_vars, c_vars, s_vars, m_vars, o_vars, t_vars, q_vars>>
s_others == <<v_vars, c_vars, f_vars, m_vars, o_vars, t_vars, q_vars>>
m_others == <<v_vars, s_vars, o_vars, t_vars, q_vars>>
t_others == <<v_vars, c_vars, f_vars, s_vars, m_vars, o_vars, q_vars>>
q_others == <<v_vars, c_vars, f_vars, s_vars, m_vars, o_vars, t_vars>>
o_others == <<v_vars, c_vars, f_vars, s_vars, m_vars, t_vars, q_vars>>

----------------------------------------------------------------------------
(* Bounds of the model *)

\* longest run of non-blank characters in a generated text field
MaxCore == 6
\* most blanks put before and after it
MaxPad == 1

----------------------------------------------------------------------------
(* Sequences and text *)

Range(s) == {s[i] : i \in 1..Len(s)}

Min(a, b) == IF a < b THEN a ELSE b

\* s[:n]
Take(s, n) == SubSeq(s, 1, Min(n, Len(s)))

\* n copies of c
Rep(c, n) == [i \in 1..n |-> c]

\* str.isspace for the characters of the model
IsSpace(c) == c \in {" ", "\n", "\t"}

RECURSIVE lstrip(_)
lstrip(s) == IF s # <<>> /\ IsSpace(Head(s)) THEN lstrip(Tail(s)) ELSE s

RECURSIVE rstrip(_)
rstrip(s) ==
    IF s # <<>> /\ IsSpace(s[Len(s)]) THEN rstrip(SubSeq(s, 1, Len(s) - 1)) ELSE s

\* str.strip()
strip(s) == lstrip(rstrip(s))

\* "sep".join(parts)
RECURSIVE join(_, _)
join(sep, parts) ==
    IF parts = <<>> THEN <<>>
    ELSE IF Len(parts) = 1 THEN parts[1]
    ELSE parts[1] \o sep \o join(sep, Tail(parts))

\* str.split(): the maximal runs of non-blank characters
RECURSIVE split(_)
split(s) ==
    LET t == lstrip(s) IN
    IF t = <<>> THEN <<>>
    ELSE LET blanks == {i \in 1..Len(t) : IsSpace(t[i])}
             cut == IF blanks = {} THEN Len(t) + 1
                    ELSE CHOOSE i \in blanks : \A j \in blanks : i <= j
         IN <<SubSeq(t, 1, cut - 1)>> \o split(SubSeq(t, cut, Len(t)))

\* str.rfind(c) with Python's 0-based index, -1 when absent
rfind(s, c) ==
    LET hits == {i \in 1..Len(s) : s[i] = c} IN
    IF hits = {} THEN -1 ELSE (CHOOSE i \in hits : \A j \in hits : j <= i) - 1

\* dict assignment entry[key] = value
Put(entry, key, value) ==
    [k \in DOMAIN entry \cup {key} |-> IF k = key THEN value ELSE entry[k]]

\* entry.pop(key, None)
Pop(entry, key) == [k \in DOMAIN entry \ {key} |-> entry[k]]

----------------------------------------------------------------------------
(* JSON values *)

JTrue == [type |-> "true", str |-> <<>>, list |-> <<>>]
JFalse == [type |-> "false", str |-> <<>>, list |-> <<>>]
JInt == [type |-> "int", str |-> <<>>, list |-> <<>>]
JNull == [type |-> "null", str |-> <<>>, list |-> <<>>]
JStr(s) == [type |-> "str", str |-> s, list |-> <<>>]
JList(l) == [type |-> "list", str |-> <<>>, list |-> l]

\* isinstance(value, bool)
IsBool(v) == v.type \in {"true", "false"}

\* isinstance(value, str)
IsStr(v) == v.type = "str"

----------------------------------------------------------------------------
(* Publication dates *)

\* Time is counted in hours, 24 to the day.  A date is [ok, aware, wall, offset]: ok says
\* that the text is a date at all, aware that it names a UTC offset, wall is
\* the reading of the clock it names, counted from the reading of a UTC clock
\* at the time of the run, and offset is its UTC offset.  The ISO text of a
\* date is the text of its wall reading followed by the text of its offset.

Stamp(aware, wall, offset) ==
    [ok |-> TRUE, aware |-> aware, wall |-> wall, offset |-> offset]

\* a date published with the clock of UTC
Utc(wall) == Stamp(TRUE, wall, 0)

\* a date without an offset: "2024-07-15", "2024-07-15T00:00:00"
Naive(wall) == Stamp(FALSE, wall, 0)

\* an empty text or one that is no date
NoDate == [ok |-> FALSE, aware |-> FALSE, wall |-> 0, offset |-> 0]

\* datetime.now(timezone.utc)
Now == Utc(0)

\* the hours between the instant a date names and now; a date without an
\* offset is read as UTC here
AgeHours(date) == date.offset - date.wall

\* (now - date).days
DaysOld(date) == AgeHours(date) \div 24

\* days_back: int = 60
days_back == 60

\* _parse_date: the date as dateutil reads it, now for an empty text and for
\* one that does not parse
_parse_date(date_str) == IF date_str.ok THEN date_str ELSE Now

\* _parse_pubmed_date: "2024 Jul 15" read and stamped as UTC, now otherwise
_parse_pubmed_date(date_str) ==
    IF date_str.ok THEN Utc(date_str.wall) ELSE Now

----------------------------------------------------------------------------
(* _validate_ai_response *)

EmptyPayload == [f \in {} |-> JNull]

\* result.get(field, default)
Get(result, field, default) ==
    IF field \in DOMAIN result THEN result[field] ELSE default

\* bool(value) for a JSON value (JInt stands for a non-zero number)
Truthy(v) ==
    CASE v.type = "true" -> TRUE
      [] v.type = "false" -> FALSE
      [] v.type = "int" -> TRUE
      [] v.type = "null" -> FALSE
      [] v.type = "str" -> v.str # <<>>
      [] v.type = "list" -> v.list # <<>>

required_fields == <<"is_ai_related", "summary", "ai_tag">>

\* BadText measuring the text as it stands, blanks around it included
BadText_Unstripped(value) == ~IsStr(value) \/ Len(value.str) < 5

\* BadText that takes a non-empty list of strings as its lines
BadText_JoiningLists(value) ==
    IF value.type = "list" /\ value.list # <<>>
    THEN Len(strip(join(<<"\n">>, value.list))) < 5
    ELSE ~IsStr(value) \/ Len(strip(value.str)) < 5

\* not isinstance(value, str) or len(value.strip()) < 5
BadText(value) == ~IsStr(value) \/ Len(strip(value.str)) < 5

\* the body of the loop for one field: TRUE when it executes "return False"
FieldFails(result, field) ==
    IF field \notin DOMAIN result THEN TRUE
    ELSE LET value == result[field] IN
         CASE field = "is_ai_related" -> ~IsBool(value)
           [] field = "summary" -> BadText(value)
           [] field = "ai_tag" ->
                IF Truthy(Get(result, "is_ai_related", JFalse))
                THEN BadText(value) ELSE FALSE

RECURSIVE ValidateFrom(_, _)
ValidateFrom(result, fields) ==
    IF fields = <<>> THEN TRUE
    ELSE IF FieldFails(result, Head(fields)) THEN FALSE
    ELSE ValidateFrom(result, Tail(fields))

_validate_ai_response(result) == ValidateFrom(result, required_fields)

----------------------------------------------------------------------------
(* SpecValidate: _validate_ai_response on every payload of a bounded set *)

\* longest list given as a text field
MaxListLen == 2

Letters(n) == Rep("a", n)

\* runs of letters, and two letter groups around one blank
Cores ==
    {Letters(k) : k \in 0..MaxCore}
        \cup {Letters(2) \o <<" ">> \o Letters(k) : k \in 1..2}

Texts ==
    {Rep(" ", l) \o c \o Rep(" ", r) : l \in 0..MaxPad, r \in 0..MaxPad, c \in Cores}

ListItems == {Letters(2), Letters(5)}

Lists == UNION {[1..n -> ListItems] : n \in 0..MaxListLen}

FlagValues == {JTrue, JFalse, JInt, JNull, JStr(<<"t", "r", "u", "e">>)}

TextValues == {JStr(t) : t \in Texts} \cup {JList(l) : l \in Lists} \cup {JNull}

\* a field that the object does not have
Absent == [type |-> "absent", str |-> <<>>, list |-> <<>>]

\* the JSON object with the given values of the required fields, without the
\* fields given as Absent
Payload(flag, summary, ai_tag) ==
    LET value == [f \in Range(required_fields) |->
                     CASE f = "is_ai_related" -> flag
                       [] f = "summary" -> summary
                       [] f = "ai_tag" -> ai_tag]
    IN [f \in {g \in Range(required_fields) : value[g] # Absent} |-> value[f]]

\* the values of the variables of a part that is not running
IdleValidate == v_result = EmptyPayload /\ v_pc = "idle" /\ v_ret = FALSE
IdleClassify ==
    /\ entries = <<>> /\ idx = 1 /\ attempt = 0 /\ calls = <<>>
    /\ ai_entries = <<>> /\ c_log = EmptyBag /\ c_pc = "idle" /\ c_ret = <<>>
IdleFetch ==
    /\ all_entries = <<>> /\ google_configured = FALSE /\ f_step = 1
    /\ f_log = <<>> /\ f_pc = "idle" /\ f_ret = <<>>
IdleScreen ==
    /\ s_entry = [title |-> <<>>, description |-> <<>>]
    /\ s_pc = "idle" /\ s_ret = FALSE

\* a file that was not written
NoFile ==
    [written |-> FALSE, brief_date |-> "", generated_at |-> NoDate,
     items |-> <<>>, total_items |-> 0]

IdleMain ==
    /\ api_key = "" /\ m_pc = "idle" /\ brief_date = ""
    /\ selected_articles = <<>> /\ brief_file = NoFile /\ html_file = NoFile

IdleOrder ==
    o_entries = <<>> /\ o_pc = "idle" /\ o_ret = <<>> /\ o_scores = <<>>

IdleText == t_text = <<>> /\ t_budget = 0 /\ t_pc = "idle" /\ t_ret = <<>>

\* the values of self._generated_queries_cache: None, or a list
None == [is_none |-> TRUE, list |-> <<>>]
List(queries) == [is_none |-> FALSE, list |-> queries]

IdleQueries ==
    q_cache = None /\ q_requests = 0 /\ q_pc = "idle" /\ q_ret = <<>>

\* every JSON object over the required fields, any of them possibly missing
InitValidate ==
    /\ \E flag \in FlagValues \cup {Absent} :
           \E summary, ai_tag \in TextValues \cup {Absent} :
               v_result = Payload(flag, summary, ai_tag)
    /\ v_pc = "call"
    /\ v_ret = FALSE
    /\ IdleClassify
    /\ IdleFetch
    /\ IdleScreen
    /\ IdleMain
    /\ IdleOrder
    /\ IdleText
    /\ IdleQueries

\* one call of _validate_ai_response(v_result)
Validate ==
    /\ v_pc = "call"
    /\ v_ret' = _validate_ai_response(v_result)
    /\ v_pc' = "returned"
    /\ UNCHANGED <<v_result, v_others>>

NextValidate == Validate

SpecValidate == InitValidate /\ [][NextValidate]_vars

----------------------------------------------------------------------------
(* _sanitize_text and _limit_words *)

\* Characters outside ASCII are written by code point.  A markup tag is the
\* single character "<b>".

\* unicodedata.normalize('NFKD', text), one character at a time
NFKD(c) ==
    CASE c = "U+2026" -> <<".", ".", ".">>
      [] c = "U+00A0" -> <<" ">>
      [] OTHER -> <<c>>

\* the unicode_replacements table
unicode_replacements(c) ==
    CASE c = "U+2013" -> <<"-">>
      [] c = "U+2014" -> <<"-", "-">>
      [] c = "U+2019" -> <<"'">>
      [] c = "U+201C" -> <<"\"">>
      [] c = "U+2026" -> <<".", ".", ".">>
      [] c = "U+00A0" -> <<" ">>
      [] c = "U+200B" -> <<>>
      [] c = "U+FEFF" -> <<>>
      [] OTHER -> <<c>>

\* unicodedata.normalize('NFKD', text) along a text
RECURSIVE normalize(_)
normalize(s) == IF s = <<>> THEN <<>> ELSE NFKD(Head(s)) \o normalize(Tail(s))

\* the loop of text.replace(unicode_char, replacement) over the table
RECURSIVE replace_all(_)
replace_all(s) ==
    IF s = <<>> THEN <<>> ELSE unicode_replacements(Head(s)) \o replace_all(Tail(s))

\* bleach.clean(text, tags=[], strip=True): tags are dropped, text is kept,
\* and a "<" that opens no tag is written as the entity "&lt;"
RECURSIVE bleach_clean(_)
bleach_clean(s) ==
    IF s = <<>> THEN <<>>
    ELSE (CASE Head(s) = "<b>" -> <<>>
            [] Head(s) = "<" -> <<"&lt;">>
            [] OTHER -> <<Head(s)>>) \o bleach_clean(Tail(s))

\* re.sub(r'\s+', ' ', text).strip()
NormalizeWhitespace(s) == join(<<" ">>, split(s))

\* is_allowed_char: of the model's characters only those above code point
\* 2000 that survive to this point are refused
is_allowed_char(c) == c \notin {"U+4E2D", "U+FFFD", "U+200B", "U+FEFF", "U+2013",
                                "U+2014", "U+2019", "U+201C", "U+2026", "\n", "\t"}

\* _sanitize_text without its final whitespace normalization
_sanitize_text_NoFinalCleanup(text) ==
    IF text = <<>> THEN <<>>
    ELSE SelectSeq(NormalizeWhitespace(bleach_clean(replace_all(normalize(text)))),
                   is_allowed_char)

_sanitize_text(text) ==
    IF text = <<>> THEN <<>>
    ELSE LET normalized == normalize(text)
             replaced == replace_all(normalized)
             clean1 == NormalizeWhitespace(bleach_clean(replaced))
             clean2 == SelectSeq(clean1, is_allowed_char)
         IN NormalizeWhitespace(SelectSeq(clean2, LAMBDA c : c # "U+FFFD"))

\* truncated_text.rstrip().endswith(('.', '!', '?'))
EndsSentence(s) == LET t == rstrip(s) IN t # <<>> /\ t[Len(t)] \in {".", "!", "?"}

Max3(a, b, c) ==
    IF a >= b /\ a >= c THEN a ELSE IF b >= c THEN b ELSE c

\* _limit_words returning its text whole
_limit_words_Untruncated(text, max_words) == text

\* _limit_words dropping only the last word of a text over the budget
_limit_words_OneWordLess(text, max_words) ==
    LET words == split(text) IN
    IF Len(words) > max_words
    THEN join(<<" ">>, Take(words, Len(words) - 1))
    ELSE text

_limit_words(text, max_words) ==
    LET words == split(text) IN
    IF Len(words) > max_words
    THEN LET truncated_text == join(<<" ">>, Take(words, max_words))
             last_sentence_break ==
                 Max3(rfind(truncated_text, "."), rfind(truncated_text, "!"),
                      rfind(truncated_text, "?"))
         IN IF EndsSentence(truncated_text) THEN truncated_text
            ELSE IF last_sentence_break > Len(truncated_text) - 30
                 THEN Take(truncated_text, last_sentence_break + 1)
                 ELSE truncated_text \o <<".", ".", ".">>
    ELSE text

----------------------------------------------------------------------------
(* _quick_ai_screening *)

\* The title and the description of a candidate are sequences of words; a
\* keyword is the sequence of its words and matches where its words occur in
\* a row.

\* str.lower() for the words of the model
lower_word(word) ==
    CASE word = "LLM" -> "llm"
      [] word = "AI" -> "ai"
      [] word = "Trial" -> "trial"
      [] word = "Clinical" -> "clinical"
      [] OTHER -> word

RECURSIVE lower(_)
lower(words) ==
    IF words = <<>> THEN <<>> ELSE <<lower_word(Head(words))>> \o lower(Tail(words))

\* f"{entry.get('title', '')} {entry.get('description', '')}".lower()
title_desc(entry) == lower(entry.title \o entry.description)

\* occurrences of the phrase in the words
PhraseHits(words, phrase) ==
    {i \in 1..(Len(words) - Len(phrase) + 1) :
        words[i] = phrase[1] /\ SubSeq(words, i, i + Len(phrase) - 1) = phrase}

\* keyword in title_desc
Contains(words, phrase) ==
    ~(\A i \in 1..(Len(words) - Len(phrase) + 1) :
          SubSeq(words, i, i + Len(phrase) - 1) # phrase)

ai_keywords == {
    <<"artificial", "intelligence">>, <<"ai">>, <<"machine", "learning">>, <<"ml">>,
    <<"deep", "learning">>, <<"neural", "network">>, <<"chatgpt">>, <<"gpt-">>,
    <<"llm">>, <<"llms">>, <<"large", "language", "model">>, <<"foundation", "model">>,
    <<"generative", "ai">>, <<"natural", "language", "processing">>, <<"nlp">>,
    <<"computer", "vision">>, <<"automated">>, <<"algorithm">>,
    <<"predictive", "model">>, <<"digital", "health">>, <<"smart", "system">>,
    <<"intelligent", "system">>, <<"computational">>}

clinical_keywords == {
    <<"clinical", "trial">>, <<"clinical", "research">>, <<"clinical", "study">>,
    <<"trial">>, <<"patient", "recruitment">>, <<"trial", "design">>,
    <<"trial", "protocol">>, <<"clinical", "investigation">>, <<"study", "protocol">>,
    <<"research", "study">>, <<"randomized">>, <<"controlled", "trial">>,
    <<"trial", "data">>, <<"clinical", "data">>}

\* any(keyword in title_desc for keyword in keywords)
AnyKeyword(keywords, words) ==
    ~(\A keyword \in keywords : ~Contains(words, keyword))

\* a screen that lets every entry pass
_quick_ai_screening_Anything(entry) == TRUE

\* a screen that asks for a keyword of either vocabulary
_quick_ai_screening_Either(entry) ==
    \/ AnyKeyword(ai_keywords, title_desc(entry))
    \/ AnyKeyword(clinical_keywords, title_desc(entry))

_quick_ai_screening(entry) ==
    LET has_ai_keyword == AnyKeyword(ai_keywords, title_desc(entry))
        has_clinical_keyword == AnyKeyword(clinical_keywords, title_desc(entry))
    IN has_ai_keyword /\ has_clinical_keyword

----------------------------------------------------------------------------
(* _rank_articles *)

\* Scores are integers: a relevance score in ten-thousandths, a recency score
\* in hundred-thousandths, a combined score in millionths.

controlled_vocab == <<
    <<"artificial", "intelligence">>, <<"machine", "learning">>, <<"deep", "learning">>,
    <<"neural", "network">>, <<"chatgpt">>, <<"gpt-4">>, <<"gpt-3">>, <<"claude">>,
    <<"llama">>, <<"gemini">>, <<"large", "language", "model">>, <<"llm">>,
    <<"foundation", "model">>, <<"generative", "ai">>,
    <<"natural", "language", "processing">>, <<"nlp">>, <<"computer", "vision">>,
    <<"clinical", "trial">>, <<"clinical", "research">>, <<"patient", "recruitment">>,
    <<"trial", "design">>, <<"trial", "protocol">>, <<"clinical", "study">>,
    <<"randomized", "controlled", "trial">>, <<"rct">>, <<"trial", "monitoring">>,
    <<"clinical", "data">>, <<"trial", "automation">>, <<"patient", "engagement">>,
    <<"synthetic", "data">>, <<"ai", "chatbot">>, <<"virtual", "assistant">>,
    <<"clinical", "documentation">> >>

\* math.log((1000 + 1) / (term_count + 1)) in ten-thousandths, for 1 to 5
\* occurrences
idf(term_count) ==
    CASE term_count = 1 -> 62156
      [] term_count = 2 -> 58101
      [] term_count = 3 -> 55225
      [] term_count = 4 -> 52993
      [] OTHER -> 51170

\* idf * (tf * (k1 + 1)) / (tf + k1 * (1 - b + b * (doc_length / avg_doc_length)))
\* with tf = term_count / doc_length, k1 = 1.2, b = 0.75, avg_doc_length = 50,
\* numerator and denominator multiplied by 500 * doc_length
term_score(term_count, doc_length) ==
    (idf(term_count) * 1100 * term_count)
        \div (500 * term_count + 150 * doc_length + 9 * doc_length * doc_length)

\* the score of the words for the terms from position i of the vocabulary on
RECURSIVE ScoreFrom(_, _, _)
ScoreFrom(words, vocabulary, i) ==
    IF i > Len(vocabulary) THEN 0
    ELSE LET term_words == vocabulary[i]
             term_count ==
                 IF Len(term_words) = 1
                 THEN Cardinality({k \in 1..Len(words) : words[k] = term_words[1]})
                 ELSE Cardinality(PhraseHits(words, term_words))
         IN (IF term_count > 0 THEN term_score(term_count, Len(words)) ELSE 0)
                + ScoreFrom(words, vocabulary, i + 1)

_calculate_relevance_score(entry, controlled_vocabulary) ==
    LET words == title_desc(entry)
    IN IF words = <<>> THEN 0 ELSE ScoreFrom(words, controlled_vocabulary, 1)

\* math.exp(-days_old / 30.0) in hundred-thousandths: exp(-1/30) = 0.9672,
\* exp(1/30) = 1.0339
RECURSIVE exp_decay(_)
exp_decay(days_old) ==
    IF days_old = 0 THEN 100000
    ELSE IF days_old > 0 THEN (exp_decay(days_old - 1) * 9672) \div 10000
    ELSE (exp_decay(days_old + 1) * 10339) \div 10000

\* 0.5 when the try block raises: datetime.fromisoformat refuses the text, or
\* the date has no offset and now - pub_date raises TypeError
_calculate_recency_score(entry) ==
    IF entry.pub_date.ok /\ entry.pub_date.aware
    THEN exp_decay(DaysOld(entry.pub_date)) ELSE 50000

\* (0.7 * relevance_score) + (0.3 * recency_score)
combined_score(entry) ==
    70 * _calculate_relevance_score(entry, controlled_vocab)
        + 3 * _calculate_recency_score(entry)

\* a sort that puts the last of the entries of one score first
RECURSIVE SortedDesc_LastFirst(_)
SortedDesc_LastFirst(s) ==
    IF s = <<>> THEN <<>>
    ELSE LET best == CHOOSE i \in 1..Len(s) :
                         /\ \A j \in 1..Len(s) :
                                s[j]._ranking_score <= s[i]._ranking_score
                         /\ \A j \in (i + 1)..Len(s) :
                                s[j]._ranking_score < s[i]._ranking_score
             rest == SubSeq(s, 1, best - 1) \o SubSeq(s, best + 1, Len(s))
         IN <<s[best]>> \o SortedDesc_LastFirst(rest)

\* sorted(s, key=lambda x: x['_ranking_score'], reverse=True): stable, the
\* highest score first
RECURSIVE SortedDesc(_)
SortedDesc(s) ==
    IF s = <<>> THEN <<>>
    ELSE LET best == CHOOSE i \in 1..Len(s) :
                         /\ \A j \in 1..Len(s) :
                                s[j]._ranking_score <= s[i]._ranking_score
                         /\ \A j \in 1..(i - 1) :
                                s[j]._ranking_score < s[i]._ranking_score
             rest == SubSeq(s, 1, best - 1) \o SubSeq(s, best + 1, Len(s))
         IN <<s[best]>> \o SortedDesc(rest)

\* lines 1491-1498: the three scores written to an entry
Scored(entry) ==
    LET e1 == Put(entry, "_ranking_score", combined_score(entry))
        e2 == Put(e1, "_relevance_score",
                  _calculate_relevance_score(entry, controlled_vocab))
    IN Put(e2, "_recency_score", _calculate_recency_score(entry))

\* lines 1505-1507: the three scores popped from an entry
Unscored(entry) ==
    Pop(Pop(Pop(entry, "_ranking_score"), "_relevance_score"), "_recency_score")

RECURSIVE ScoreAll(_)
ScoreAll(es) ==
    IF es = <<>> THEN <<>> ELSE <<Scored(Head(es))>> \o ScoreAll(Tail(es))

RECURSIVE UnscoreAll(_)
UnscoreAll(es) ==
    IF es = <<>> THEN <<>> ELSE <<Unscored(Head(es))>> \o UnscoreAll(Tail(es))

\* a ranking that leaves out the entries that score below the highest score
_rank_articles_Filtering(es) ==
    LET ranked_entries == SortedDesc(ScoreAll(es))
    IN UnscoreAll(SelectSeq(ranked_entries,
           LAMBDA e : e._ranking_score >= ranked_entries[1]._ranking_score))

\* a ranking that leaves the scores in the entries
_rank_articles_KeepingScores(es) == SortedDesc(ScoreAll(es))

\* the scores are written to every entry, the entries are sorted by the
\* ranking score and the scores are popped again
_rank_articles(es) == UnscoreAll(SortedDesc(ScoreAll(es)))

----------------------------------------------------------------------------
(* identify_ai_content *)

\* The text of a response is a sequence of parts: "prose" is text without
\* braces, "open" a lone "{", "close" a lone "}", and "obj" the text of one
\* JSON object, whose value is payload.
Prose == [kind |-> "prose", payload |-> EmptyPayload]
Open == [kind |-> "open", payload |-> EmptyPayload]
Close == [kind |-> "close", payload |-> EmptyPayload]
Obj(p) == [kind |-> "obj", payload |-> p]

\* re.search(r'\{.*\}', content, re.DOTALL).group(): from the first "{" to
\* the last "}" of the text; <<>> when there is no match
re_search(content) ==
    LET opens == {i \in 1..Len(content) : content[i].kind \in {"open", "obj"}}
        first == CHOOSE i \in opens : \A j \in opens : i <= j
        closes == {i \in 1..Len(content) : content[i].kind \in {"close", "obj"}}
        last == CHOOSE i \in closes : \A j \in closes : j <= i
    IN IF opens = {} \/ closes = {} THEN <<>>
       ELSE IF last < first THEN <<>>
       ELSE SubSeq(content, first, last)

\* json.loads(text) returns (TRUE) or raises json.JSONDecodeError (FALSE)
json_loads_ok(text) == Len(text) = 1 /\ text[1].kind = "obj"

\* for attempt in range(3)
max_attempts == 3

\* self._limit_words(entry['summary'], 140)
summary_word_limit == 140

\* A record of the log: its level, what it reports, the entry it is about and
\* the text of the exception it reports ("none" when it reports none).  The
\* log is the bag of its records; the attempt number and the time written
\* into a record are left out.
LogRecord(level, event, entry_id) ==
    [level |-> level, event |-> event, entry_id |-> entry_id, error |-> "none"]

\* line 1630: the record of the except branch, with str(e)
ExceptionRecord(entry_id, exc) ==
    [level |-> "error", event |-> "exception", entry_id |-> entry_id,
     error |-> exc]

\* the bag of the records of a sequence
RECURSIVE BagOf(_)
BagOf(records) ==
    IF records = <<>> THEN EmptyBag
    ELSE SetToBag({Head(records)}) (+) BagOf(Tail(records))

\* lines 1611-1616: the fields written to an accepted entry
Enriched(entry, result) ==
    LET e1 == Put(entry, "is_ai_related", TRUE)
        e2 == Put(e1, "summary", _sanitize_text(Get(result, "summary", JStr(<<>>)).str))
        e3 == Put(e2, "ai_tag", _sanitize_text(Get(result, "ai_tag", JStr(<<>>)).str))
    IN Put(e3, "summary", _limit_words(e3.summary, summary_word_limit))

\* a handler that names json.JSONDecodeError only
Caught_JsonOnly(exc) == exc = "json"

\* except Exception as e: every exception of the model is an Exception
Caught(exc) == exc \in {"service", "json"}

\* an entry appended whenever the flag of the response is true, valid or not
KeepEntry_Unvalidated(valid, result) ==
    Truthy(Get(result, "is_ai_related", JFalse))

\* an entry appended whenever the response is valid, whatever its flag
KeepEntry_IgnoringFlag(valid, result) == valid

\* line 1610 under line 1608: the entry is appended when the response is valid
\* and result.get('is_ai_related', False) is true
KeepEntry(valid, result) == valid /\ Truthy(Get(result, "is_ai_related", JFalse))

\* a loop left only when the entry was appended
Breaks_WhenRelevant(valid, result) ==
    valid /\ Truthy(Get(result, "is_ai_related", JFalse))

\* line 1619: break, reached exactly when the response is valid
Breaks(valid, result) == valid

\* the last-attempt error record of the two else branches
FinalFailure(event, entry_id, att) ==
    IF att = max_attempts - 1
    THEN <<LogRecord("error", event, entry_id)>> ELSE <<>>

\* One pass through the body of the retry loop, for a response of the
\* classification service: raises says that the call raised, content is the
\* text it returned otherwise.  The result: the warning and error records
\* logged inside the try block, the exception raised in it ("none" if none),
\* whether break was executed and whether the entry was appended.
TryBody(entry, att, resp) ==
    LET json_match == re_search(resp.content)
        result == json_match[1].payload
        valid == _validate_ai_response(result)
    IN IF resp.raises
       THEN [log |-> <<>>, exc |-> "service", break |-> FALSE, keep |-> FALSE]
       ELSE IF json_match = <<>>
       THEN [log |-> <<LogRecord("warning", "no_json", entry.id)>>
                        \o FinalFailure("final_no_json", entry.id, att),
             exc |-> "none", break |-> FALSE, keep |-> FALSE]
       ELSE IF ~json_loads_ok(json_match)
       THEN [log |-> <<>>, exc |-> "json", break |-> FALSE, keep |-> FALSE]
       ELSE [log |-> IF valid THEN <<>>
                     ELSE <<LogRecord("warning", "invalid_response", entry.id)>>
                              \o FinalFailure("final_invalid", entry.id, att),
             exc |-> "none",
             break |-> Breaks(valid, result), keep |-> KeepEntry(valid, result)]

\* the categories the prompt names for ai_tag
ai_tag_categories == {
    <<"G", "e", "n", "e", "r", "a", "t", "i", "v", "e", " ", "A", "I">>,
    <<"N", "a", "t", "u", "r", "a", "l", " ", "L", "a", "n", "g", "u",
      "a", "g", "e", " ", "P", "r", "o", "c", "e", "s", "s", "i", "n",
      "g">>,
    <<"M", "a", "c", "h", "i", "n", "e", " ", "L", "e", "a", "r", "n",
      "i", "n", "g">>,
    <<"T", "r", "i", "a", "l", " ", "O", "p", "t", "i", "m", "i", "z",
      "a", "t", "i", "o", "n">>,
    <<"A", "I", " ", "E", "t", "h", "i", "c", "s">>,
    <<"D", "i", "g", "i", "t", "a", "l", " ", "H", "e", "a", "l", "t",
      "h">>}

\* lines 1515-1519: an entry that fails the quick screen is skipped
SkipEntry ==
    /\ c_pc = "loop"
    /\ idx <= Len(entries)
    /\ ~_quick_ai_screening(entries[idx])
    /\ idx' = idx + 1
    /\ UNCHANGED <<entries, attempt, calls, ai_entries, c_log, c_pc, c_ret, c_others>>

\* lines 1523-1632: one iteration of the retry loop for the current entry
ClassifyAttempt(resp) ==
    /\ c_pc = "loop"
    /\ idx <= Len(entries)
    /\ _quick_ai_screening(entries[idx])
    /\ UNCHANGED c_others
    /\ LET entry == entries[idx]
           body == TryBody(entry, attempt, resp)
           result == re_search(resp.content)[1].payload
           kept == Enriched(entry, result)
           handler == IF body.exc = "none" THEN <<>>
                      ELSE <<ExceptionRecord(entry.id, body.exc)>>
           leaves == body.break \/ attempt = max_attempts - 1
       IN /\ calls' = [calls EXCEPT ![idx] = @ + 1]
          /\ IF body.exc # "none" /\ ~Caught(body.exc)
             THEN /\ c_pc' = "raised"
                  /\ c_log' = c_log (+) BagOf(body.log)
                  /\ UNCHANGED <<entries, idx, attempt, ai_entries, c_ret>>
             ELSE /\ c_log' = c_log (+) BagOf(body.log \o handler)
                  /\ entries' = IF body.keep THEN [entries EXCEPT ![idx] = kept]
                                ELSE entries
                  /\ ai_entries' = IF body.keep THEN Append(ai_entries, kept)
                                   ELSE ai_entries
                  /\ idx' = IF leaves THEN idx + 1 ELSE idx
                  /\ attempt' = IF leaves THEN 0 ELSE attempt + 1
                  /\ UNCHANGED <<c_pc, c_ret>>

\* lines 1634-1644: rank the accepted entries and return them
ReturnRanked ==
    /\ c_pc = "loop"
    /\ idx > Len(entries)
    /\ c_ret' = _rank_articles(ai_entries)
    /\ c_pc' = "returned"
    /\ UNCHANGED <<entries, idx, attempt, calls, ai_entries, c_log, c_others>>

----------------------------------------------------------------------------
(* fetch_feeds *)

\* The phases of fetch_feeds in the order of the code, one query or feed of
\* each: the Google phase is skipped when the API is not configured.
SourcePlan ==
    (IF google_configured THEN <<"Google Search">> ELSE <<>>)
        \o <<"PubMed", "Europe PMC", "Semantic Scholar", "RSS">>

\* SOURCE_LIMITS['Google Search']
google_max_results == 5

\* the limit of the first entry of RSS_FEEDS
rss_limit == 12

\* SOURCE_LIMITS['PubMed'], sent to the service as retmax
pubmed_max_results == 8

\* the max_results of the calls of search_europepmc, sent as pageSize
europepmc_max_results == 3

\* the max_results of the calls of search_semantic_scholar, sent as limit
semantic_scholar_max_results == 3

\* the result cap of a source
max_results(source) ==
    CASE source = "Google Search" -> google_max_results
      [] source = "PubMed" -> pubmed_max_results
      [] source = "Europe PMC" -> europepmc_max_results
      [] source = "Semantic Scholar" -> semantic_scholar_max_results
      [] source = "RSS" -> rss_limit

\* A response of a source: error is "none", or the exception its request
\* raised: "request" is a requests.RequestException (no connection, a timeout,
\* the HTTPError of raise_for_status), "parse" the error of response.json() or
\* feedparser.parse on a body that does not parse.  items are the raw items
\* of a response without error, [link, title, description, date, year]: date
\* is the publication date the source reports and year its publication year.
\* Each item has a link and a title of clean text, which _sanitize_text
\* leaves as it is, and passes the filters of its source that do not look at
\* dates.

\* the pub_date of the record of an item: lines 972, 1110 and 1158 for the
\* searches that call _parse_date, line 1059 for PubMed, line 1315 for a feed
\* entry, whose published_parsed is a reading of the clock of UTC
PubDate(item, source) ==
    CASE source = "PubMed" -> _parse_pubmed_date(item.date)
      [] source = "RSS" -> (IF item.date.ok THEN Utc(item.date.wall) ELSE Now)
      [] OTHER -> _parse_date(item.date)

\* the record built from a raw item; id stands for str(uuid.uuid4()) and is
\* the position at which the record is gathered
EntryData(item, source, position) ==
    [id |-> position, title |-> item.title, description |-> item.description,
     link |-> item.link, pub_date |-> PubDate(item, source), source |-> source]

\* line 1152: paper.get('year', 0) >= 2020
recent_paper(item) == item.year >= 2020

\* lines 1300-1308: a feed entry is skipped when it has a date and
\* (now - entry_date).days > self.days_back
rss_in_window(item) ==
    ~(item.date.ok /\ DaysOld(Utc(item.date.wall)) > days_back)

EntriesFrom(items, source) ==
    [k \in 1..Len(items) |-> EntryData(items[k], source, Len(all_entries) + k)]

\* a handler that names requests.RequestException only
SourceErrorCaught_RequestOnly(error) == error = "request"

\* except Exception as e, the handler of every search function and of the
\* RSS block
SourceErrorCaught(error) == error \in {"request", "parse"}

\* the record of a source that was fetched, and of one that failed
FetchedRecord(source, count) ==
    [level |-> "info", source |-> source, count |-> count, error |-> "none"]
FailedRecord(source, error) ==
    [level |-> "error", source |-> source, count |-> 0, error |-> error]

\* The common shape of the five source blocks: the entries found are appended
\* and an info record is logged, or the exception is caught and an error
\* record is logged.  The result is the state the block leaves.
Gathered(source, resp, found) ==
    IF resp.error = "none"
    THEN [all_entries |-> all_entries \o found,
          f_log |-> Append(f_log, FetchedRecord(source, Len(found))),
          f_step |-> f_step + 1, f_pc |-> f_pc]
    ELSE IF SourceErrorCaught(resp.error)
    THEN [all_entries |-> all_entries,
          f_log |-> Append(f_log, FailedRecord(source, resp.error)),
          f_step |-> f_step + 1, f_pc |-> f_pc]
    ELSE [all_entries |-> all_entries, f_log |-> f_log, f_step |-> f_step,
          f_pc |-> "raised"]

\* the block of SourcePlan that runs next
AtSource(source) ==
    f_pc = "loop" /\ f_step <= Len(SourcePlan) /\ SourcePlan[f_step] = source

\* lines 1234-1238 with search_google: entries[:max_results]
search_google(resp) ==
    /\ AtSource("Google Search")
    /\ LET after == Gathered("Google Search", resp,
                          Take(EntriesFrom(resp.items, "Google Search"),
                               google_max_results))
       IN /\ all_entries' = after.all_entries
          /\ f_log' = after.f_log
          /\ f_step' = after.f_step
          /\ f_pc' = after.f_pc
    /\ UNCHANGED <<google_configured, f_ret, f_others>>

\* lines 1260-1264 with search_pubmed
search_pubmed(resp) ==
    /\ AtSource("PubMed")
    /\ LET after == Gathered("PubMed", resp,
                          EntriesFrom(resp.items, "PubMed"))
       IN /\ all_entries' = after.all_entries
          /\ f_log' = after.f_log
          /\ f_step' = after.f_step
          /\ f_pc' = after.f_pc
    /\ UNCHANGED <<google_configured, f_ret, f_others>>

\* lines 1274-1277 with search_europepmc
search_europepmc(resp) ==
    /\ AtSource("Europe PMC")
    /\ LET after == Gathered("Europe PMC", resp,
                          EntriesFrom(resp.items, "Europe PMC"))
       IN /\ all_entries' = after.all_entries
          /\ f_log' = after.f_log
          /\ f_step' = after.f_step
          /\ f_pc' = after.f_pc
    /\ UNCHANGED <<google_configured, f_ret, f_others>>

\* lines 1286-1289 with search_semantic_scholar
search_semantic_scholar(resp) ==
    /\ AtSource("Semantic Scholar")
    /\ LET after == Gathered("Semantic Scholar", resp,
                          EntriesFrom(SelectSeq(resp.items, recent_paper),
                                      "Semantic Scholar"))
       IN /\ all_entries' = after.all_entries
          /\ f_log' = after.f_log
          /\ f_step' = after.f_step
          /\ f_pc' = after.f_pc
    /\ UNCHANGED <<google_configured, f_ret, f_others>>

\* lines 1293-1336: feed.entries[:limit] without the entries that are too old
fetch_rss(resp) ==
    /\ AtSource("RSS")
    /\ LET after == Gathered("RSS", resp,
                          EntriesFrom(SelectSeq(Take(resp.items, rss_limit),
                                                rss_in_window), "RSS"))
       IN /\ all_entries' = after.all_entries
          /\ f_log' = after.f_log
          /\ f_step' = after.f_step
          /\ f_pc' = after.f_pc
    /\ UNCHANGED <<google_configured, f_ret, f_others>>

\* a loop that remembers the link of the entry before only
RECURSIVE Unique_AdjacentOnly(_, _)
Unique_AdjacentOnly(es, seen_urls) ==
    IF es = <<>> THEN <<>>
    ELSE IF Head(es).link \notin seen_urls
         THEN <<Head(es)>> \o Unique_AdjacentOnly(Tail(es), {Head(es).link})
         ELSE Unique_AdjacentOnly(Tail(es), seen_urls)

\* a loop that keeps the last entry of a link instead of the first
RECURSIVE Unique_LastWins(_, _)
Unique_LastWins(es, seen_urls) ==
    IF es = <<>> THEN <<>>
    ELSE IF Head(es).link \notin {e.link : e \in Range(Tail(es))}
         THEN <<Head(es)>> \o Unique_LastWins(Tail(es), seen_urls)
         ELSE Unique_LastWins(Tail(es), seen_urls)

\* lines 1339-1344: keep an entry when its link was not seen before
RECURSIVE Unique(_, _)
Unique(es, seen_urls) ==
    IF es = <<>> THEN <<>>
    ELSE IF Head(es).link \notin seen_urls
         THEN <<Head(es)>> \o Unique(Tail(es), seen_urls \cup {Head(es).link})
         ELSE Unique(Tail(es), seen_urls)

unique_entries == Unique(all_entries, {})

\* lines 1338-1357: remove duplicates, log the totals and return
ReturnUnique ==
    /\ f_pc = "loop"
    /\ f_step > Len(SourcePlan)
    /\ f_ret' = unique_entries
    /\ f_log' = Append(f_log, [level |-> "info", source |-> "summary",
                               count |-> Len(unique_entries), error |-> "none"])
    /\ f_pc' = "returned"
    /\ UNCHANGED <<all_entries, google_configured, f_step, f_others>>

----------------------------------------------------------------------------
(* generate_search_queries and refresh_search_queries *)

\* A query is a pair <<request, k>>: line k of the answer to the request of
\* that number; request 0 stands for the predefined list.

\* FALLBACK_SEARCH_QUERIES
FALLBACK_SEARCH_QUERIES == [k \in 1..10 |-> <<0, k>>]

\* the queries parsed from the answer to a request: one for each line that
\* is longer than 10 characters once stripped of blanks and numbering
ParsedQueries(resp, request) == [k \in 1..resp.lines |-> <<request, k>>]

\* if self._generated_queries_cache: neither None nor an empty list
CachePopulated(cache) == ~cache.is_none /\ cache.list # <<>>

\* a test that any parsed query satisfies
EnoughQueries_Any(queries) == Len(queries) >= 1

\* if len(queries) >= 10
EnoughQueries(queries) == Len(queries) >= 10

\* generate_search_queries on a cache: the cache it leaves, whose list it
\* returns, and whether it sent a request
Generated(cache, resp, request) ==
    LET queries == ParsedQueries(resp, request) IN
    IF CachePopulated(cache) THEN [cache |-> cache, requested |-> FALSE]
    ELSE IF ~resp.raises /\ EnoughQueries(queries)
    THEN [cache |-> List(Take(queries, 20)), requested |-> TRUE]
    ELSE [cache |-> List(FALLBACK_SEARCH_QUERIES), requested |-> TRUE]

\* most requests sent to the query-generation service
MaxRequests == 6

\* lines 482-571
generate_search_queries(resp) ==
    /\ q_pc # "idle"
    /\ CachePopulated(q_cache) \/ q_requests < MaxRequests
    /\ LET after == Generated(q_cache, resp, q_requests + 1)
       IN /\ q_cache' = after.cache
          /\ q_ret' = after.cache.list
          /\ q_requests' = IF after.requested THEN q_requests + 1 ELSE q_requests
    /\ q_pc' = "generate_search_queries"
    /\ UNCHANGED q_others

\* lines 573-576: the cache is set to None before generate_search_queries
refresh_search_queries(resp) ==
    /\ q_pc # "idle"
    /\ q_requests < MaxRequests
    /\ LET after == Generated(None, resp, q_requests + 1)
       IN /\ q_cache' = after.cache
          /\ q_ret' = after.cache.list
          /\ q_requests' = IF after.requested THEN q_requests + 1 ELSE q_requests
    /\ q_pc' = "refresh_search_queries"
    /\ UNCHANGED q_others

----------------------------------------------------------------------------
(* select_articles, save_brief_data and main *)

\* The ISO text of a date is compared character by character.  The texts of
\* two wall readings compare as the readings do.  After equal readings the
\* text of the offset decides: no offset is a prefix of every other text,
\* "+" comes before "-", and of two offsets of one sign the one farther from
\* UTC has the greater text.
OffsetTextRank(date) ==
    IF ~date.aware THEN 0
    ELSE IF date.offset >= 0 THEN 1 + date.offset
    ELSE 100 - date.offset

\* a < b for the ISO texts of two dates
IsoTextLess(a, b) ==
    \/ a.wall < b.wall
    \/ a.wall = b.wall /\ OffsetTextRank(a) < OffsetTextRank(b)

\* sorted(entries, key=lambda x: x.get('pub_date', ''), reverse=True): stable,
\* the greatest text first
RECURSIVE SortedByPubDate(_)
SortedByPubDate(s) ==
    IF s = <<>> THEN <<>>
    ELSE LET best == CHOOSE i \in 1..Len(s) :
                         /\ \A j \in 1..Len(s) :
                                ~IsoTextLess(s[i].pub_date, s[j].pub_date)
                         /\ \A j \in 1..(i - 1) :
                                IsoTextLess(s[j].pub_date, s[i].pub_date)
             rest == SubSeq(s, 1, best - 1) \o SubSeq(s, best + 1, Len(s))
         IN <<s[best]>> \o SortedByPubDate(rest)

\* select_articles sorting the list read from its end
select_articles_TiesReversed(es) ==
    SortedByPubDate([k \in 1..Len(es) |-> es[Len(es) + 1 - k]])

select_articles(es) == SortedByPubDate(es)

\* a document that counts every entry and holds the first one only
save_brief_data_FirstOnly(es) ==
    [written |-> TRUE, brief_date |-> brief_date, generated_at |-> Now,
     items |-> Take(es, 1), total_items |-> Len(es)]

\* the brief_data of save_brief_data, as json.dump writes it
save_brief_data(es) ==
    [written |-> TRUE, brief_date |-> brief_date, generated_at |-> Now,
     items |-> es, total_items |-> Len(es)]

\* generate_html: the page rendered from the context built from brief_data
generate_html(brief_data) ==
    [written |-> TRUE, brief_date |-> brief_data.brief_date,
     generated_at |-> brief_data.generated_at, items |-> brief_data.items,
     total_items |-> brief_data.total_items]

\* os.environ.get of a variable that is not set
Unset == "unset"

\* a test that finds every key present
KeyMissing_Never(key) == FALSE

\* not qwen_api_key
KeyMissing(key) == key \in {Unset, ""}

\* datetime.now(timezone.utc).strftime('%Y-%m-%d') at the time of the run
Days == {"2025-01-01", "2025-01-02"}

\* lines 1761-1781: the key is read, ValueError is raised without it, the
\* processors are built with it
MainStart ==
    /\ m_pc = "start"
    /\ IF KeyMissing(api_key)
       THEN m_pc' = "raised" /\ UNCHANGED brief_date
       ELSE m_pc' = "fetch_feeds" /\ brief_date' \in Days
    /\ UNCHANGED <<api_key, selected_articles, brief_file, html_file>>
    /\ UNCHANGED <<c_vars, f_vars, m_others>>

\* line 1785: fetch_feeds is called
MainFetch ==
    /\ m_pc = "fetch_feeds"
    /\ m_pc' = "fetching"
    /\ f_pc' = "loop"
    /\ UNCHANGED <<api_key, brief_date, selected_articles, brief_file, html_file>>
    /\ UNCHANGED <<all_entries, google_configured, f_step, f_log, f_ret>>
    /\ UNCHANGED <<c_vars, m_others>>

\* line 1790: identify_ai_content is called with the list fetch_feeds returned
MainClassify ==
    /\ m_pc = "fetching"
    /\ f_pc = "returned"
    /\ m_pc' = "classifying"
    /\ entries' = f_ret
    /\ idx' = 1
    /\ attempt' = 0
    /\ calls' = [i \in 1..Len(f_ret) |-> 0]
    /\ c_pc' = "loop"
    /\ UNCHANGED <<ai_entries, c_log, c_ret>>
    /\ UNCHANGED <<api_key, brief_date, selected_articles, brief_file, html_file>>
    /\ UNCHANGED <<f_vars, m_others>>

\* line 1795: select_articles is called with the list identify_ai_content
\* returned
MainSelect ==
    /\ m_pc = "classifying"
    /\ c_pc = "returned"
    /\ selected_articles' = select_articles(c_ret)
    /\ m_pc' = "save_brief_data"
    /\ UNCHANGED <<api_key, brief_date, brief_file, html_file>>
    /\ UNCHANGED <<c_vars, f_vars, m_others>>

\* line 1800: the run document is written
MainSave ==
    /\ m_pc = "save_brief_data"
    /\ brief_file' = save_brief_data(selected_articles)
    /\ m_pc' = "generate_html"
    /\ UNCHANGED <<api_key, brief_date, selected_articles, html_file>>
    /\ UNCHANGED <<c_vars, f_vars, m_others>>

\* lines 1804-1806: the run document is read back and the page is written
MainHtml ==
    /\ m_pc = "generate_html"
    /\ html_file' = generate_html(brief_file)
    /\ m_pc' = "done"
    /\ UNCHANGED <<api_key, brief_date, selected_articles, brief_file>>
    /\ UNCHANGED <<c_vars, f_vars, m_others>>

----------------------------------------------------------------------------
(* SpecClassify and SpecMalformed: identify_ai_content on bounded candidate *)
(* lists, with a service that may raise and with one that may return text   *)
(* that is no JSON                                                          *)

\* most candidates in the list handed to identify_ai_content
MaxEntries == 2

\* "P" names both vocabularies, "A" only the AI one, "R" neither
CandidateKinds == {"P", "A", "R"}

KindTitle(kind) ==
    CASE kind = "P" -> <<"llm", "clinical", "trial">>
      [] kind = "A" -> <<"chatgpt", "writes", "poems">>
      [] kind = "R" -> <<"new", "hospital", "wing", "opens">>

\* the candidate at position i of n, as fetch_feeds builds it: the later a
\* candidate stands in the list, the more recent it is
Candidate(kind, i, n) ==
    [id |-> i, title |-> KindTitle(kind), description |-> <<>>,
     pub_date |-> Utc(-(24 * (n - i)))]

InputLists ==
    UNION {{[i \in 1..n |-> Candidate(k[i], i, n)] : k \in [1..n -> CandidateKinds]}
           : n \in 0..MaxEntries}

SummaryText == <<"a", "a", "a", "a", "a", " ", " ", "<b>", "a", ".">>
TagText == <<"G", "e", "n", "A", "I">>

Relevant == Payload(JTrue, JStr(SummaryText), JStr(TagText))
NotRelevant == Payload(JFalse, JStr(SummaryText), JStr(<<>>))
\* relevance flag true, no ai_tag
Incomplete == Payload(JTrue, JStr(SummaryText), Absent)

ClsPayloads == {Relevant, NotRelevant, Incomplete}

\* what the service does in SpecClassify: the call raises, or it returns text
\* without braces, or text around one JSON object
ClsContents ==
    {<<Prose>>} \cup {<<Prose, Obj(p), Prose>> : p \in ClsPayloads}

ClsResponses ==
    {[raises |-> TRUE, content |-> <<>>]}
        \cup {[raises |-> FALSE, content |-> c] : c \in ClsContents}

\* what the service does in SpecMalformed: the call always returns, with text
\* without braces, with braces around text that is no JSON, or with text
\* around one JSON object
MalformedContents ==
    {<<Prose>>, <<Open, Prose, Close>>}
        \cup {<<Prose, Obj(p), Prose>> : p \in {Relevant, Incomplete}}

MalformedResponses == {[raises |-> FALSE, content |-> c] : c \in MalformedContents}

InitClassify ==
    /\ entries \in InputLists
    /\ idx = 1
    /\ attempt = 0
    /\ calls = [i \in 1..Len(entries) |-> 0]
    /\ ai_entries = <<>>
    /\ c_log = EmptyBag
    /\ c_pc = "loop"
    /\ c_ret = <<>>
    /\ IdleValidate
    /\ IdleFetch
    /\ IdleScreen
    /\ IdleMain
    /\ IdleOrder
    /\ IdleText
    /\ IdleQueries

NextClassify ==
    \/ SkipEntry
    \/ \E resp \in ClsResponses : ClassifyAttempt(resp)
    \/ ReturnRanked

SpecClassify == InitClassify /\ [][NextClassify]_vars

NextMalformed ==
    \/ SkipEntry
    \/ \E resp \in MalformedResponses : ClassifyAttempt(resp)
    \/ ReturnRanked

SpecMalformed == InitClassify /\ [][NextMalformed]_vars

----------------------------------------------------------------------------
(* SpecWrapped: identify_ai_content with a service that wraps its JSON      *)
(* object in prose, in prose with braces, or follows it by a second object  *)

WrappedContents ==
    {<<Obj(NotRelevant)>>,
     <<Prose, Obj(Relevant), Prose>>,
     <<Prose, Obj(Relevant), Prose, Close>>,
     <<Obj(Relevant), Prose, Obj(NotRelevant)>>}

WrappedResponses == {[raises |-> FALSE, content |-> c] : c \in WrappedContents}

NextWrapped ==
    \/ SkipEntry
    \/ \E resp \in WrappedResponses : ClassifyAttempt(resp)
    \/ ReturnRanked

SpecWrapped == InitClassify /\ [][NextWrapped]_vars

----------------------------------------------------------------------------
(* SpecScreen: _quick_ai_screening on every entry of a bounded set *)

\* most words in a title and in a description
MaxWords == 2

ScreenWords == {"LLM", "machine", "learning", "Clinical", "trial", "poems"}

WordLists == UNION {[1..n -> ScreenWords] : n \in 0..MaxWords}

InitScreen ==
    /\ \E title, description \in WordLists :
           s_entry = [title |-> title, description |-> description]
    /\ s_pc = "call"
    /\ s_ret = FALSE
    /\ IdleValidate
    /\ IdleClassify
    /\ IdleFetch
    /\ IdleMain
    /\ IdleOrder
    /\ IdleText
    /\ IdleQueries

\* one call of _quick_ai_screening(s_entry)
Screen ==
    /\ s_pc = "call"
    /\ s_ret' = _quick_ai_screening(s_entry)
    /\ s_pc' = "returned"
    /\ UNCHANGED <<s_entry, s_others>>

NextScreen == Screen

SpecScreen == InitScreen /\ [][NextScreen]_vars

----------------------------------------------------------------------------
(* SpecLimit: _limit_words on every text and budget of a bounded set *)

\* longest text spelled out character by character
MaxChars == 5
\* largest max_words
MaxBudget == 2

LimitChars == {"a", ".", " "}

ShortTexts(n) == UNION {[1..k -> LimitChars] : k \in 0..n}

\* a word as long as the span in which _limit_words looks for a sentence break
LongWord == Rep("a", 30)

\* texts whose first words are longer than that span
LongTexts == {p \o LongWord \o <<" ">> \o q : p, q \in ShortTexts(2)}

LimitTexts == ShortTexts(MaxChars) \cup LongTexts

InitLimit ==
    /\ t_text \in LimitTexts
    /\ t_budget \in 1..MaxBudget
    /\ t_pc = "call"
    /\ t_ret = <<>>
    /\ IdleValidate
    /\ IdleClassify
    /\ IdleFetch
    /\ IdleScreen
    /\ IdleMain
    /\ IdleOrder
    /\ IdleQueries

\* one call of _limit_words(t_text, t_budget)
LimitWords ==
    /\ t_pc = "call"
    /\ t_ret' = _limit_words(t_text, t_budget)
    /\ t_pc' = "_limit_words"
    /\ UNCHANGED <<t_text, t_budget, t_others>>

NextLimit == LimitWords

SpecLimit == InitLimit /\ [][NextLimit]_vars

----------------------------------------------------------------------------
(* SpecSanitize: _sanitize_text on every text of a bounded set *)

\* longest text handed to _sanitize_text
MaxMixed == 3

\* a letter, blanks, a tag, a "<" that opens no tag, an ellipsis, a smart
\* quote, an em dash, a non-breaking space, a zero-width space and a
\* character the filter removes
MixedChars ==
    {"a", " ", "\n", "<b>", "<", "U+2026", "U+201C", "U+2014", "U+00A0",
     "U+200B", "U+4E2D"}

MixedTexts == UNION {[1..k -> MixedChars] : k \in 0..MaxMixed}

InitSanitize ==
    /\ t_text \in MixedTexts
    /\ t_budget = 0
    /\ t_pc = "call"
    /\ t_ret = <<>>
    /\ IdleValidate
    /\ IdleClassify
    /\ IdleFetch
    /\ IdleScreen
    /\ IdleMain
    /\ IdleOrder
    /\ IdleQueries

\* one call of _sanitize_text(t_text)
Sanitize ==
    /\ t_pc = "call"
    /\ t_ret' = _sanitize_text(t_text)
    /\ t_pc' = "_sanitize_text"
    /\ UNCHANGED <<t_text, t_budget, t_others>>

NextSanitize == Sanitize

SpecSanitize == InitSanitize /\ [][NextSanitize]_vars

----------------------------------------------------------------------------
(* SpecFetch: fetch_feeds with one call to every source *)

\* most raw items in the response of one source
MaxItems == 1

Links == {"u1", "u2"}

\* items of this year, published an hour before the run
RawItems ==
    {[link |-> l, title |-> KindTitle("P"), description |-> <<>>,
      date |-> Utc(-1), year |-> 2024] : l \in Links}

SourceResponses ==
    {[error |-> e, items |-> <<>>] : e \in {"request", "parse"}}
        \cup {[error |-> "none", items |-> its]
              : its \in UNION {[1..n -> RawItems] : n \in 0..MaxItems}}

InitFetch ==
    /\ all_entries = <<>>
    /\ google_configured \in BOOLEAN
    /\ f_step = 1
    /\ f_log = <<>>
    /\ f_pc = "loop"
    /\ f_ret = <<>>
    /\ IdleValidate
    /\ IdleClassify
    /\ IdleScreen
    /\ IdleMain
    /\ IdleOrder
    /\ IdleText
    /\ IdleQueries

NextFetch ==
    \/ \E resp \in SourceResponses : search_google(resp)
    \/ \E resp \in SourceResponses : search_pubmed(resp)
    \/ \E resp \in SourceResponses : search_europepmc(resp)
    \/ \E resp \in SourceResponses : search_semantic_scholar(resp)
    \/ \E resp \in SourceResponses : fetch_rss(resp)
    \/ ReturnUnique

SpecFetch == InitFetch /\ [][NextFetch]_vars

----------------------------------------------------------------------------
(* SpecWindow: fetch_feeds with items of different ages *)

\* An item published an hour before the run, one published 5 hours before
\* the start of the window of days_back days, one published a day before it,
\* and one of 2019.
Item(link, date, year) ==
    [link |-> link, title |-> KindTitle("P"), description |-> <<>>,
     date |-> date, year |-> year]

FreshItem == Item("u1", Utc(-1), 2024)
EdgeItem == Item("u2", Utc(-(24 * days_back + 5)), 2024)
StaleItem == Item("u3", Utc(-(24 * (days_back + 1))), 2024)
AncientItem == Item("u4", Utc(-(24 * 365 * 6)), 2019)

WindowItems == {FreshItem, EdgeItem, StaleItem, AncientItem}

ItemLists(items) == UNION {[1..n -> items] : n \in 0..MaxItems}

\* Google is asked for dateRestrict d{days_back} (line 918) and PubMed for the
\* publication dates from start_date to end_date (line 1025): their items lie
\* in the window
RestrictedResponses ==
    {[error |-> "none", items |-> its] : its \in ItemLists({FreshItem})}

\* the requests to Europe PMC and Semantic Scholar name no date (lines
\* 1091-1097 and 1141-1145), and a feed holds what its publisher put in it
UnrestrictedResponses ==
    {[error |-> "none", items |-> its] : its \in ItemLists(WindowItems)}

NextWindow ==
    \/ \E resp \in RestrictedResponses : search_google(resp)
    \/ \E resp \in RestrictedResponses : search_pubmed(resp)
    \/ \E resp \in UnrestrictedResponses : search_europepmc(resp)
    \/ \E resp \in UnrestrictedResponses : search_semantic_scholar(resp)
    \/ \E resp \in UnrestrictedResponses : fetch_rss(resp)
    \/ ReturnUnique

SpecWindow == InitFetch /\ [][NextWindow]_vars

----------------------------------------------------------------------------
(* SpecCaps: fetch_feeds with services that return as many items as they    *)
(* are asked for, or more                                                   *)

\* items a service returns beyond the number it is asked for
MaxExtra == 1

\* n items of different links
ItemRun(n) == [k \in 1..n |-> Item(k, Utc(-1), 2024)]

\* the responses of a source: an error, no item, as many items as its cap,
\* or up to MaxExtra items more
CapResponses(source) ==
    {[error |-> "request", items |-> <<>>]}
        \cup {[error |-> "none", items |-> ItemRun(n)]
              : n \in {0} \cup (max_results(source)..max_results(source) + MaxExtra)}

NextCaps ==
    \/ \E resp \in CapResponses("Google Search") : search_google(resp)
    \/ \E resp \in CapResponses("PubMed") : search_pubmed(resp)
    \/ \E resp \in CapResponses("Europe PMC") : search_europepmc(resp)
    \/ \E resp \in CapResponses("Semantic Scholar") : search_semantic_scholar(resp)
    \/ \E resp \in CapResponses("RSS") : fetch_rss(resp)
    \/ ReturnUnique

SpecCaps == InitFetch /\ [][NextCaps]_vars

----------------------------------------------------------------------------
(* SpecQueries: calls of generate_search_queries and refresh_search_queries *)
(* on one processor                                                         *)

\* most lines of an answer that parse as queries
MaxLines == 21

\* the service raises, or answers with 0 to MaxLines lines that parse
QueryResponses ==
    {[raises |-> TRUE, lines |-> 0]}
        \cup {[raises |-> FALSE, lines |-> n] : n \in 0..MaxLines}

\* line 164: the cache of a new processor is None
InitQueries ==
    /\ q_cache = None
    /\ q_requests = 0
    /\ q_pc = "ready"
    /\ q_ret = <<>>
    /\ IdleValidate
    /\ IdleClassify
    /\ IdleFetch
    /\ IdleScreen
    /\ IdleMain
    /\ IdleOrder
    /\ IdleText

NextQueries ==
    \/ \E resp \in QueryResponses : generate_search_queries(resp)
    \/ \E resp \in QueryResponses : refresh_search_queries(resp)

SpecQueries == InitQueries /\ [][NextQueries]_vars

----------------------------------------------------------------------------
(* Properties of _validate_ai_response, checked under SpecValidate *)

\* the length of a text between its first and its last non-blank character
TrimmedLen(s) ==
    LET solid == {i \in 1..Len(s) : ~IsSpace(s[i])} IN
    IF solid = {} THEN 0
    ELSE (CHOOSE i \in solid : \A j \in solid : j <= i)
             - (CHOOSE i \in solid : \A j \in solid : i <= j) + 1

HasField(result, field) == field \in DOMAIN result

\* the field is there and is a string of trimmed length at least 5
GoodString(result, field) ==
    /\ HasField(result, field)
    /\ result[field].type = "str"
    /\ TrimmedLen(result[field].str) >= 5

\* the field is there and is a non-empty list of strings whose lines, joined
\* by newlines, have trimmed length at least 5
GoodList(result, field) ==
    /\ HasField(result, field)
    /\ result[field].type = "list"
    /\ result[field].list # <<>>
    /\ TrimmedLen(join(<<"\n">>, result[field].list)) >= 5

FlagIs(result, flag) ==
    HasField(result, "is_ai_related") /\ result["is_ai_related"] = flag

\* what claim C6 says must fail validation
Malformed(result) ==
    \/ \E field \in Range(required_fields) : ~HasField(result, field)
    \/ result["is_ai_related"] \notin {JTrue, JFalse}
    \/ /\ result["is_ai_related"] = JTrue
       /\ ~GoodString(result, "summary") \/ ~GoodString(result, "ai_tag")

\* C6: _validate_ai_response returns false for every payload that misses a
\* required field, or whose is_ai_related is not a boolean, or, when
\* is_ai_related is true, whose summary or ai_tag is not a string of trimmed
\* length at least 5.
C6_MalformedPayloadRejected ==
    (v_pc = "returned" /\ Malformed(v_result)) => v_ret = FALSE

\* a payload with a true flag and a good ai_tag whose summary has 5 or more
\* characters but fewer than 5 between its blanks was rejected
C6_Witness ==
    /\ v_pc = "returned"
    /\ FlagIs(v_result, JTrue)
    /\ GoodString(v_result, "ai_tag")
    /\ HasField(v_result, "summary")
    /\ v_result["summary"].type = "str"
    /\ Len(v_result["summary"].str) >= 5
    /\ TrimmedLen(v_result["summary"].str) < 5
    /\ v_ret = FALSE

\* C7 as claimed: a payload with a boolean flag whose summary and ai_tag are
\* each a good string or a good list of strings passes validation.
C7_ListOfStringsAccepted ==
    (/\ v_pc = "returned"
     /\ FlagIs(v_result, JTrue) \/ FlagIs(v_result, JFalse)
     /\ GoodString(v_result, "summary") \/ GoodList(v_result, "summary")
     /\ GoodString(v_result, "ai_tag") \/ GoodList(v_result, "ai_tag"))
        => v_ret = TRUE

\* C7 as amended: a text field given as a list of strings is never taken as
\* its joined lines: a payload whose summary is a list fails validation, and
\* so does one whose ai_tag is a list while is_ai_related is true.
C7_ListOfStringsRejected ==
    (/\ v_pc = "returned"
     /\ \/ HasField(v_result, "summary") /\ v_result["summary"].type = "list"
        \/ /\ FlagIs(v_result, JTrue)
           /\ HasField(v_result, "ai_tag") /\ v_result["ai_tag"].type = "list")
        => v_ret = FALSE

\* a payload with a true flag, a good ai_tag and a summary that is a good
\* list of strings was rejected
C7_Witness ==
    /\ v_pc = "returned"
    /\ FlagIs(v_result, JTrue)
    /\ GoodString(v_result, "ai_tag")
    /\ GoodList(v_result, "summary")
    /\ v_ret = FALSE

----------------------------------------------------------------------------
(* Properties of fetch_feeds, checked under SpecFetch *)

LinksOf(es) == {es[k].link : k \in 1..Len(es)}

\* C8: the list fetch_feeds returns holds exactly one record per distinct
\* link among the gathered items: its records are gathered records, no two of
\* them share a link, and every gathered link is the link of one of them.
C8_OneRecordPerLink ==
    f_pc = "returned" =>
        /\ \A k \in 1..Len(f_ret) : f_ret[k] \in Range(all_entries)
        /\ \A j, k \in 1..Len(f_ret) : f_ret[j].link = f_ret[k].link => j = k
        /\ LinksOf(f_ret) = LinksOf(all_entries)

\* fetch_feeds returned two records after gathering a link more than once, and
\* not only from neighbouring positions
C8_Witness ==
    /\ f_pc = "returned"
    /\ Len(f_ret) = 2
    /\ \E j, k \in 1..Len(all_entries) :
           k > j + 1 /\ all_entries[j].link = all_entries[k].link
                     /\ all_entries[j + 1].link # all_entries[j].link

\* the place of a source in the order the claim names
SourceRank(source) ==
    CASE source = "Google Search" -> 1
      [] source = "PubMed" -> 2
      [] source = "Europe PMC" -> 3
      [] source = "Semantic Scholar" -> 4
      [] source = "RSS" -> 5

\* C9: items are gathered source by source in the order Google, PubMed,
\* Europe PMC, Semantic Scholar, RSS; of the gathered items that share a link
\* fetch_feeds keeps the one gathered first, and the records it returns stand
\* in the order in which they were gathered.
C9_FirstGatheredWins ==
    /\ \A k \in 1..Len(all_entries) : all_entries[k].id = k
    /\ \A j, k \in 1..Len(all_entries) :
           j < k => SourceRank(all_entries[j].source)
                        <= SourceRank(all_entries[k].source)
    /\ f_pc = "returned" =>
           /\ \A k \in 1..Len(f_ret) : \A j \in 1..Len(all_entries) :
                  all_entries[j].link = f_ret[k].link => f_ret[k].id <= j
           /\ \A j, k \in 1..Len(f_ret) : j < k => f_ret[j].id < f_ret[k].id

\* fetch_feeds returned after two different sources gave the same link, and a
\* record of another link was gathered between the two
C9_Witness ==
    /\ f_pc = "returned"
    /\ \E j, k \in 1..Len(all_entries) :
           /\ j + 1 < k
           /\ all_entries[j].link = all_entries[k].link
           /\ all_entries[j].source # all_entries[k].source
           /\ all_entries[j + 1].link # all_entries[j].link
           /\ \E m \in 1..Len(f_ret) : f_ret[m] = all_entries[j]

\* one block of fetch_feeds run with the response resp
SourceStep(resp) ==
    \/ search_google(resp)
    \/ search_pubmed(resp)
    \/ search_europepmc(resp)
    \/ search_semantic_scholar(resp)
    \/ fetch_rss(resp)

\* the records logged for the sources, the summary record left out
SourceRecords == SubSeq(f_log, 1, Min(Len(f_log), Len(SourcePlan)))

\* what a block does with a failing response: the failure is logged, nothing
\* is gathered, and the next block is due
FailureAbsorbed ==
    \A resp \in SourceResponses :
        (resp.error # "none" /\ SourceStep(resp)) =>
            /\ f_pc' = "loop"
            /\ f_step' = f_step + 1
            /\ all_entries' = all_entries
            /\ Len(f_log') = Len(f_log) + 1
            /\ f_log'[Len(f_log')].level = "error"
            /\ f_log'[Len(f_log')].source = SourcePlan[f_step]

\* what fetch_feeds has done when it returns: every source of the plan was
\* queried, in order; the links a succeeding source gave are all returned;
\* nothing is returned when every source failed
FetchCompleted ==
    f_pc = "returned" =>
        /\ Len(f_log) = Len(SourcePlan) + 1
        /\ \A k \in 1..Len(SourcePlan) : f_log[k].source = SourcePlan[k]
        /\ \A k \in 1..Len(SourcePlan) :
               f_log[k].level = "info" =>
                   /\ Cardinality({j \in 1..Len(all_entries) :
                          all_entries[j].source = SourcePlan[k]}) = f_log[k].count
                   /\ \A j \in 1..Len(all_entries) :
                          all_entries[j].source = SourcePlan[k]
                              => all_entries[j].link \in LinksOf(f_ret)
        /\ (\A k \in 1..Len(SourcePlan) : f_log[k].level = "error")
               => f_ret = <<>>

\* C10: a source that fails with a request or a parse error never makes
\* fetch_feeds raise: the failure is logged, every remaining source is still
\* queried, the items of the sources that succeeded are returned, and the
\* empty list is returned when every source failed.
C10_SourceFailureNotFatal ==
    /\ [](f_pc # "raised")
    /\ [][FailureAbsorbed]_vars
    /\ []FetchCompleted

\* fetch_feeds returned a record of a source that was queried after another
\* source had failed
C10_Witness ==
    /\ f_pc = "returned"
    /\ f_ret # <<>>
    /\ \E j, k \in 1..Len(SourceRecords) :
           /\ j < k
           /\ f_log[j].level = "error"
           /\ f_log[k].level = "info" /\ f_log[k].count > 0

----------------------------------------------------------------------------
(* SpecOrder: _rank_articles, _calculate_recency_score and select_articles  *)
(* on every list of a bounded set                                           *)

\* most entries in the list
MaxRanked == 3

\* Dates of an hour and of 30 hours before the run and of 2 hours after it,
\* written with the clock of UTC; the instant of the run written with a clock
\* 8 hours behind UTC; a date without an offset; a text that is no date.
OrderDates ==
    {Utc(-1), Utc(-30), Utc(2), Stamp(TRUE, -8, -8), Naive(-3), NoDate}

\* a title that names each vocabulary once, and one that names an AI term
\* twice
OrderTitles == {KindTitle("P"), <<"llm", "clinical", "trial", "llm">>}

OrderEntry(i, title, date) ==
    [id |-> i, title |-> title, description |-> <<>>, pub_date |-> date]

OrderLists ==
    UNION {{[i \in 1..n |-> OrderEntry(i, t[i], d[i])]
               : t \in [1..n -> OrderTitles], d \in [1..n -> OrderDates]}
           : n \in 0..MaxRanked}

InitOrder ==
    /\ o_entries \in OrderLists
    /\ o_pc = "call"
    /\ o_ret = <<>>
    /\ o_scores = <<>>
    /\ IdleValidate
    /\ IdleClassify
    /\ IdleFetch
    /\ IdleScreen
    /\ IdleMain
    /\ IdleText
    /\ IdleQueries

\* one call of _rank_articles(o_entries)
Rank ==
    /\ o_pc = "call"
    /\ o_ret' = _rank_articles(o_entries)
    /\ o_pc' = "_rank_articles"
    /\ UNCHANGED <<o_entries, o_scores, o_others>>

\* one call of _calculate_recency_score for each entry of o_entries
Recency ==
    /\ o_pc = "call"
    /\ o_scores' = [i \in 1..Len(o_entries) |->
                       _calculate_recency_score(o_entries[i])]
    /\ o_pc' = "_calculate_recency_score"
    /\ UNCHANGED <<o_entries, o_ret, o_others>>

\* one call of select_articles(o_entries)
Select ==
    /\ o_pc = "call"
    /\ o_ret' = select_articles(o_entries)
    /\ o_pc' = "select_articles"
    /\ UNCHANGED <<o_entries, o_scores, o_others>>

NextOrder == Rank \/ Recency \/ Select

SpecOrder == InitOrder /\ [][NextOrder]_vars

----------------------------------------------------------------------------
(* SpecMain: main from the reading of the key to the writing of the page *)

\* two items that name both vocabularies and one that names neither
MainItems ==
    {[link |-> "u1", title |-> KindTitle("P"), description |-> <<>>,
      date |-> Utc(-72), year |-> 2024],
     [link |-> "u2", title |-> KindTitle("P"), description |-> <<>>,
      date |-> Utc(-1), year |-> 2024],
     [link |-> "u3", title |-> KindTitle("R"), description |-> <<>>,
      date |-> Utc(-2), year |-> 2024],
     [link |-> "u4", title |-> <<"llm", "clinical", "trial", "llm">>,
      description |-> <<>>, date |-> Utc(-1), year |-> 2024]}

\* every source answers, with no item or with one
MainSourceResponses ==
    {[error |-> "none", items |-> <<>>]}
        \cup {[error |-> "none", items |-> <<item>>] : item \in MainItems}

\* the service answers every call with a valid response
MainClsResponses ==
    {[raises |-> FALSE, content |-> <<Prose, Obj(p), Prose>>]
        : p \in {Relevant, NotRelevant}}

InitMain ==
    /\ api_key \in {Unset, "", "sk-or-1"}
    /\ m_pc = "start"
    /\ brief_date = ""
    /\ selected_articles = <<>>
    /\ brief_file = NoFile
    /\ html_file = NoFile
    /\ all_entries = <<>>
    /\ google_configured \in BOOLEAN
    /\ f_step = 1
    /\ f_log = <<>>
    /\ f_pc = "idle"
    /\ f_ret = <<>>
    /\ IdleValidate
    /\ IdleClassify
    /\ IdleScreen
    /\ IdleOrder
    /\ IdleText
    /\ IdleQueries

NextMain ==
    \/ MainStart
    \/ MainFetch
    \/ \E resp \in MainSourceResponses : search_google(resp)
    \/ \E resp \in MainSourceResponses : search_pubmed(resp)
    \/ \E resp \in MainSourceResponses : search_europepmc(resp)
    \/ \E resp \in MainSourceResponses : search_semantic_scholar(resp)
    \/ \E resp \in MainSourceResponses : fetch_rss(resp)
    \/ ReturnUnique
    \/ MainClassify
    \/ SkipEntry
    \/ \E resp \in MainClsResponses : ClassifyAttempt(resp)
    \/ ReturnRanked
    \/ MainSelect
    \/ MainSave
    \/ MainHtml

SpecMain == InitMain /\ [][NextMain]_vars

----------------------------------------------------------------------------
(* Properties of the date window of fetch_feeds, checked under SpecWindow *)

\* the date lies in the window: it is no older than now - days_back
InWindow(date) == AgeHours(date) <= 24 * days_back

\* C11 as claimed: every record fetch_feeds returns, whatever source produced
\* it, has a publication date no older than now - days_back.
C11_ReturnedWithinWindow ==
    f_pc = "returned" => \A k \in 1..Len(f_ret) : InWindow(f_ret[k].pub_date)

----------------------------------------------------------------------------
(* Properties of the result caps of fetch_feeds, checked under SpecCaps *)

\* the call of the source that runs next adds at most its cap
WithinCap ==
    \A source \in Range(SourcePlan) :
        AtSource(source) =>
            Len(all_entries') - Len(all_entries) <= max_results(source)

\* C28: no call of a source adds more records to the gathered list than the
\* cap of the source, whatever number of items the service returns.
C28_EachCallWithinCap == [][WithinCap]_vars

----------------------------------------------------------------------------
(* Properties of the query cache, checked under SpecQueries *)

\* the queries of one answer of the service, between 10 and 20 of them
LlmGenerated(queries) ==
    /\ Len(queries) >= 10 /\ Len(queries) <= 20
    /\ \E request \in 1..q_requests :
           \A k \in 1..Len(queries) : queries[k] = <<request, k>>

\* after a call the cache is populated with generated or predefined queries
CacheWellFormed ==
    q_pc # "ready" =>
        /\ ~q_cache.is_none /\ Len(q_cache.list) > 0
        /\ LlmGenerated(q_cache.list) \/ q_cache.list = FALLBACK_SEARCH_QUERIES
        /\ q_ret = q_cache.list

\* a call on a populated cache sends no request and returns the cache as it
\* was; a refresh sends a request
CacheStep ==
    /\ \A resp \in QueryResponses :
           (generate_search_queries(resp) /\ ~q_cache.is_none) =>
               /\ q_requests' = q_requests
               /\ q_cache' = q_cache
               /\ q_ret' = q_cache.list
    /\ \A resp \in QueryResponses :
           refresh_search_queries(resp) => q_requests' = q_requests + 1

\* C29: after any calls of generate_search_queries and
\* refresh_search_queries the cache holds 10 to 20 generated queries or the
\* 10 predefined ones; generate_search_queries on a populated cache sends no
\* request and returns the cache unchanged; refresh_search_queries always
\* sends a request.
C29_CacheHoldsQueries ==
    /\ []CacheWellFormed
    /\ [][CacheStep]_vars

\* a refresh replaced predefined queries by 20 generated ones, and a later
\* generate_search_queries returned them without a request
C29_Witness ==
    /\ q_pc = "generate_search_queries"
    /\ q_requests = 2
    /\ Len(q_cache.list) = 20
    /\ q_cache.list[1] = <<2, 1>>
    /\ q_ret = q_cache.list

----------------------------------------------------------------------------
(* Properties of _quick_ai_screening, checked under SpecScreen *)

\* the words of the title followed by those of the description, in lower case
LoweredText(entry) ==
    [k \in 1..(Len(entry.title) + Len(entry.description)) |->
        lower_word(IF k <= Len(entry.title) THEN entry.title[k]
                   ELSE entry.description[k - Len(entry.title)])]

\* the term stands in the text from position i on
TermAt(text, term, i) ==
    /\ i + Len(term) - 1 <= Len(text)
    /\ \A k \in 1..Len(term) : text[i + k - 1] = term[k]

\* the text of the entry contains a term of the vocabulary
NamesTermOf(vocabulary, entry) ==
    \E term \in vocabulary :
        \E i \in 1..Len(LoweredText(entry)) : TermAt(LoweredText(entry), term, i)

\* C12: _quick_ai_screening returns true exactly when the lower-cased text
\* of title and description contains a term of the AI vocabulary and a term
\* of the clinical vocabulary; an entry with terms of one vocabulary only is
\* rejected.
C12_ScreenIffBothVocabularies ==
    s_pc = "returned" =>
        (s_ret <=> (NamesTermOf(ai_keywords, s_entry)
                        /\ NamesTermOf(clinical_keywords, s_entry)))

\* an entry whose text has an AI term written in capitals and no clinical
\* term was rejected
C12_Witness ==
    /\ s_pc = "returned"
    /\ "LLM" \in Range(s_entry.title)
    /\ NamesTermOf(ai_keywords, s_entry)
    /\ ~NamesTermOf(clinical_keywords, s_entry)
    /\ s_ret = FALSE

----------------------------------------------------------------------------
(* Properties of the orderings, checked under SpecOrder *)

\* C15: the list _rank_articles returns is a permutation of the list it was
\* given: it has the same length and holds every record of the input, as it
\* was given, so ranking drops no candidate.
C15_RankingIsPermutation ==
    o_pc = "_rank_articles" =>
        /\ Len(o_ret) = Len(o_entries)
        /\ \A i \in 1..Len(o_entries) :
               \E j \in 1..Len(o_ret) : o_ret[j] = o_entries[i]
        /\ \A j, k \in 1..Len(o_ret) : o_ret[j] = o_ret[k] => j = k

\* _rank_articles returned a list of 3 whose first record stood last in the
\* input
C15_Witness ==
    /\ o_pc = "_rank_articles"
    /\ Len(o_ret) = 3
    /\ o_ret[1] = o_entries[3]

\* 0.7 * relevance + 0.3 * recency, in millionths
CompositeOf(entry) ==
    70 * _calculate_relevance_score(entry, controlled_vocab)
        + 3 * _calculate_recency_score(entry)

\* C16: in the list _rank_articles returns no record has a lower composite
\* score than a record after it, and two records of equal composite score
\* stand in the order in which they stood in the input.
C16_DescendingAndStable ==
    o_pc = "_rank_articles" =>
        \A j, k \in 1..Len(o_ret) :
            j < k =>
                /\ CompositeOf(o_ret[j]) >= CompositeOf(o_ret[k])
                /\ CompositeOf(o_ret[j]) = CompositeOf(o_ret[k])
                       => o_ret[j].id < o_ret[k].id

\* _rank_articles moved a record in front of two records of equal composite
\* score that have different dates
C16_Witness ==
    /\ o_pc = "_rank_articles"
    /\ Len(o_ret) = 3
    /\ o_ret[1].id = 3
    /\ CompositeOf(o_ret[2]) = CompositeOf(o_ret[3])
    /\ o_ret[2].pub_date # o_ret[3].pub_date

\* the two entries have the same text
SameText(a, b) == a.title = b.title /\ a.description = b.description

\* C18 as claimed: of two entries with the same text whose dates both parse,
\* the one published more recently has the strictly greater recency score.
C18_MoreRecentScoresHigher ==
    o_pc = "_calculate_recency_score" =>
        \A a, b \in 1..Len(o_entries) :
            (/\ SameText(o_entries[a], o_entries[b])
             /\ o_entries[a].pub_date.ok /\ o_entries[b].pub_date.ok
             /\ AgeHours(o_entries[a].pub_date) < AgeHours(o_entries[b].pub_date))
                => o_scores[a] > o_scores[b]

\* C27: a publication date in the future scores as one of age 0, no recency
\* score exceeds the score of age 0, and a date that cannot be parsed scores
\* 0.5.
C27_AgeClampedAtZero ==
    o_pc = "_calculate_recency_score" =>
        \A a \in 1..Len(o_entries) :
            /\ o_scores[a] <= exp_decay(0)
            /\ (/\ o_entries[a].pub_date.ok /\ o_entries[a].pub_date.aware
                /\ AgeHours(o_entries[a].pub_date) < 0) => o_scores[a] = exp_decay(0)
            /\ ~o_entries[a].pub_date.ok => o_scores[a] = 50000

\* the instant a date names, in hours from now
InstantOf(date) == date.wall - date.offset

\* C19 as claimed: for entries whose dates are ISO texts with UTC offsets,
\* possibly different ones, select_articles returns a permutation of its
\* input in which no record was published before a record after it.
C19_NewestFirst ==
    (/\ o_pc = "select_articles"
     /\ \A i \in 1..Len(o_entries) :
            o_entries[i].pub_date.ok /\ o_entries[i].pub_date.aware)
        => /\ Len(o_ret) = Len(o_entries)
           /\ \A i \in 1..Len(o_entries) :
                  \E j \in 1..Len(o_ret) : o_ret[j] = o_entries[i]
           /\ \A j, k \in 1..Len(o_ret) :
                  j < k => InstantOf(o_ret[j].pub_date) >= InstantOf(o_ret[k].pub_date)

----------------------------------------------------------------------------
(* Properties of _limit_words, checked under SpecLimit *)

Ellipsis == <<".", ".", ".">>

\* the text has a sentence-terminal mark
HasTerminal(text) == \E i \in 1..Len(text) : text[i] \in {".", "!", "?"}

\* the first max_words words joined by single spaces
FirstWords(text, max_words) == join(<<" ">>, Take(split(text), max_words))

\* C21: the text _limit_words returns has at most max_words + 1 words, and a
\* text of at most max_words words is returned unchanged.
C21_WordBudget ==
    t_pc = "_limit_words" =>
        /\ Len(split(t_ret)) <= t_budget + 1
        /\ (Len(split(t_text)) <= t_budget => t_ret = t_text)

\* a text over the budget was cut down to the budget, and one within the
\* budget came back whole
C21_Witness ==
    /\ t_pc = "_limit_words"
    /\ Len(split(t_text)) > t_budget
    /\ Len(split(t_ret)) = t_budget
    /\ t_ret # t_text

\* C22: a text over the budget whose first max_words words hold no
\* sentence-terminal mark comes back as those words followed by "...".
C22_EllipsisWhenNoBreak ==
    (/\ t_pc = "_limit_words"
     /\ Len(split(t_text)) > t_budget
     /\ ~HasTerminal(FirstWords(t_text, t_budget)))
        => t_ret = FirstWords(t_text, t_budget) \o Ellipsis

\* C23: applying _limit_words with the same budget to its own result
\* changes nothing.
C23_StableUnderReapplication ==
    t_pc = "_limit_words" => _limit_words(t_ret, t_budget) = t_ret

\* the first application changed the text
C23_Witness ==
    /\ t_pc = "_limit_words"
    /\ t_ret # t_text
    /\ Len(t_ret) > 0
    /\ _limit_words(t_ret, t_budget) = t_ret

----------------------------------------------------------------------------
(* Properties of _sanitize_text, checked under SpecSanitize *)

\* two blanks in a row
WhitespaceRun(text) ==
    \E i \in 1..Len(text) - 1 : IsSpace(text[i]) /\ IsSpace(text[i + 1])

\* C24: _sanitize_text applied to its own result changes nothing, and its
\* result holds no markup tag and no two blanks in a row.
C24_SanitizeIdempotent ==
    t_pc = "_sanitize_text" =>
        /\ _sanitize_text(t_ret) = t_ret
        /\ "<b>" \notin Range(t_ret)
        /\ ~WhitespaceRun(t_ret)

\* a text mixing a tag, a typographic character and a removed character
\* between blanks was cleaned
C24_Witness ==
    /\ t_pc = "_sanitize_text"
    /\ "<b>" \in Range(t_text)
    /\ Range(t_text) \cap {"U+2026", "U+201C", "U+2014"} # {}
    /\ t_ret # <<>>
    /\ t_ret # t_text

----------------------------------------------------------------------------
(* Properties of identify_ai_content: C1, C3 and C4 are checked under       *)
(* SpecClassify, C2 and C5 under SpecMalformed                              *)

\* the candidate at position i passed the quick screen
Screened(i) == _quick_ai_screening(entries[i])

IdsOf(es) == {es[k].id : k \in 1..Len(es)}

\* the response parses and passes _validate_ai_response
ValidResponse(resp) ==
    /\ ~resp.raises
    /\ \E k \in 1..Len(resp.content) :
           /\ resp.content[k].kind = "obj"
           /\ \A j \in 1..Len(resp.content) : j # k => resp.content[j].kind = "prose"
           /\ _validate_ai_response(resp.content[k].payload)

\* the relevance flag of the object of a valid response
FlagOf(resp) ==
    LET k == CHOOSE j \in 1..Len(resp.content) : resp.content[j].kind = "obj"
    IN resp.content[k].payload["is_ai_related"]

\* how many records of each kind the log holds about entry i: the warnings of
\* a response without a JSON object and of an invalid one, the errors of a
\* response that does not parse and of a call that raised, and the errors
\* logged after a third failure
NoJsonRecords(i) == CopiesIn(LogRecord("warning", "no_json", i), c_log)
InvalidRecords(i) == CopiesIn(LogRecord("warning", "invalid_response", i), c_log)
UnparsableRecords(i) == CopiesIn(ExceptionRecord(i, "json"), c_log)
ServiceErrorRecords(i) == CopiesIn(ExceptionRecord(i, "service"), c_log)
FinalFailureRecords(i) ==
    CopiesIn(LogRecord("error", "final_no_json", i), c_log)
        + CopiesIn(LogRecord("error", "final_invalid", i), c_log)

MalformedRecords(i) == NoJsonRecords(i) + UnparsableRecords(i)

\* the calls made for entry i that did not end in a valid response
AttemptFailures(i) ==
    NoJsonRecords(i) + InvalidRecords(i) + UnparsableRecords(i)
        + ServiceErrorRecords(i)

\* C1: for a candidate that passes the screen the classification service is
\* called at most 3 times (and never for one that fails it), at most one of
\* the calls gets a response that parses and passes validation, and that call
\* is the last one made for the candidate.
C1_AtMostThreeCallsNoneAfterValid ==
    \A i \in 1..Len(entries) :
        /\ calls[i] <= 3
        /\ ~Screened(i) => calls[i] = 0
        /\ i > idx => calls[i] = 0
        /\ calls[i] - AttemptFailures(i) \in {0, 1}
        /\ calls[i] > AttemptFailures(i) => idx > i

\* a candidate was called twice, the second call got a valid response, and the
\* loop has gone on to a later candidate, which was called three times
C1_Witness ==
    \E i, j \in 1..Len(entries) :
        /\ i < j /\ j < idx
        /\ calls[i] = 2 /\ AttemptFailures(i) = 1
        /\ calls[j] = 3 /\ AttemptFailures(j) = 3

\* C2: a screened candidate whose 3 attempts each gave a response without a
\* JSON object, one that does not parse or one that fails validation is in
\* neither the accepted list nor the returned list, the loop has left it, no
\* exception has left identify_ai_content, and when identify_ai_content
\* returns every screened candidate has been put to the service.
C2_ThreeFailuresDropCandidate ==
    /\ \A i \in 1..Len(entries) :
           (MalformedRecords(i) + InvalidRecords(i) = 3) =>
               /\ i \notin IdsOf(ai_entries)
               /\ i \notin IdsOf(c_ret)
               /\ idx > i
               /\ c_pc \in {"loop", "returned"}
    /\ c_pc = "returned" =>
           \A j \in 1..Len(entries) : Screened(j) => calls[j] >= 1

\* identify_ai_content returned a later candidate after a candidate had given
\* one response of each kind: no JSON object, unparsable, invalid
C2_Witness ==
    /\ c_pc = "returned"
    /\ \E i, j \in 1..Len(entries) :
           /\ i < j
           /\ NoJsonRecords(i) = 1
           /\ UnparsableRecords(i) = 1
           /\ InvalidRecords(i) = 1
           /\ j \in IdsOf(c_ret)

\* C3: an exception raised by the call of the classification service never
\* leaves identify_ai_content; it uses up one of the 3 attempts of the
\* candidate; a candidate that the loop has left after fewer than 3 calls was
\* left because of a valid response, whatever was raised before; and a
\* candidate whose 3 calls all raised is in neither the accepted nor the
\* returned list.
C3_ServiceExceptionIsFailedAttempt ==
    /\ c_pc # "raised"
    /\ \A i \in 1..Len(entries) :
           /\ ServiceErrorRecords(i) <= calls[i]
           /\ calls[i] <= 3
           /\ (idx > i /\ Screened(i) /\ calls[i] < 3) =>
                  calls[i] = AttemptFailures(i) + 1
           /\ ServiceErrorRecords(i) = 3 =>
                  /\ i \notin IdsOf(ai_entries)
                  /\ i \notin IdsOf(c_ret)
                  /\ idx > i

\* identify_ai_content returned a candidate that was accepted on the call
\* after one that raised, after a candidate whose 3 calls all raised
C3_Witness ==
    /\ c_pc = "returned"
    /\ \E i, j \in 1..Len(entries) :
           /\ i < j
           /\ ServiceErrorRecords(i) = 3
           /\ ServiceErrorRecords(j) = 1
           /\ calls[j] = 2
           /\ j \in IdsOf(c_ret)

\* the accepted list changes only as the response resp of the service says:
\* a valid response ends the work on the candidate, which is appended when
\* the flag of the response is true and left out when it is false; any other
\* response leaves the list as it is
AppendedAsClassified(resp) ==
    IF ValidResponse(resp)
    THEN /\ idx' = idx + 1
         /\ calls'[idx] = calls[idx] + 1
         /\ IF FlagOf(resp) = JTrue
            THEN /\ Len(ai_entries') = Len(ai_entries) + 1
                 /\ SubSeq(ai_entries', 1, Len(ai_entries)) = ai_entries
                 /\ ai_entries'[Len(ai_entries')].id = entries[idx].id
            ELSE ai_entries' = ai_entries
    ELSE ai_entries' = ai_entries

ClassifiedStep ==
    /\ \A resp \in ClsResponses : ClassifyAttempt(resp) => AppendedAsClassified(resp)
    /\ SkipEntry => ai_entries' = ai_entries
    /\ ReturnRanked => ai_entries' = ai_entries

\* the accepted entries are candidates that passed the screen and that the
\* loop has left, each of them once; the returned list holds the same entries
OutputWellFormed ==
    /\ \A k \in 1..Len(ai_entries) :
           /\ ai_entries[k].id < idx
           /\ Screened(ai_entries[k].id)
    /\ \A j, k \in 1..Len(ai_entries) : ai_entries[j].id = ai_entries[k].id => j = k
    /\ c_pc = "returned" =>
           /\ Len(c_ret) = Len(ai_entries)
           /\ IdsOf(c_ret) = IdsOf(ai_entries)

\* C4: a candidate is in the output exactly when it passed the screen and the
\* first valid response to one of its calls has the relevance flag true: a
\* valid response with the flag true appends it, a valid response with the
\* flag false ends the work on it without appending it, nothing else changes
\* the accepted list, and no candidate is in the output twice.
C4_OutputIffFirstValidIsRelevant ==
    /\ []OutputWellFormed
    /\ [][ClassifiedStep]_vars

\* identify_ai_content returned a candidate accepted on its second call and
\* left out a screened candidate whose only call got a valid response
C4_Witness ==
    /\ c_pc = "returned"
    /\ \E i, j \in 1..Len(entries) :
           /\ i \in IdsOf(c_ret)
           /\ calls[i] = 2
           /\ Screened(j)
           /\ calls[j] = 1 /\ AttemptFailures(j) = 0
           /\ j \notin IdsOf(c_ret)

\* C5 as claimed: a candidate whose 3 calls each returned malformed JSON, text
\* without braces or braces around text that does not parse, has exactly 3
\* attempt-failure records and exactly 1 final-failure record in the log.
C5_ThreeFailureRecordsAndOneFinal ==
    \A i \in 1..Len(entries) :
        (idx > i /\ MalformedRecords(i) = 3) =>
            /\ AttemptFailures(i) = 3
            /\ FinalFailureRecords(i) = 1

----------------------------------------------------------------------------
(* Properties of the accepted records, checked under SpecClassify and       *)
(* SpecWrapped                                                              *)

\* C25: the ai_tag of every record of the output is one of the categories.
C25_TagFromEnumeration ==
    /\ \A k \in 1..Len(ai_entries) : ai_entries[k].ai_tag \in ai_tag_categories
    /\ \A k \in 1..Len(c_ret) : c_ret[k].ai_tag \in ai_tag_categories

\* the first JSON object of a text
FirstObject(content) ==
    LET objs == {k \in 1..Len(content) : content[k].kind = "obj"}
    IN content[CHOOSE k \in objs : \A j \in objs : k <= j]

\* the attempt parsed, validated and applied the first object of the text
FirstObjectApplied(resp) ==
    LET result == FirstObject(resp.content).payload IN
    _validate_ai_response(result) =>
        /\ idx' = idx + 1
        /\ c_log' = c_log
        /\ ai_entries' = IF Truthy(Get(result, "is_ai_related", JFalse))
                         THEN Append(ai_entries, Enriched(entries[idx], result))
                         ELSE ai_entries

\* C26: when the response holds a valid JSON object wrapped in prose, with
\* or without braces or a second object after it, the attempt parses,
\* validates and applies that first object.
C26_FirstObjectParsed ==
    [][\A resp \in WrappedResponses :
           ClassifyAttempt(resp) => FirstObjectApplied(resp)]_vars

----------------------------------------------------------------------------
(* Properties of main, checked under SpecMain *)

\* the Screener rejects the entry: its text lacks a term of one of the two
\* vocabularies
RejectedByScreener(entry) ==
    ~(NamesTermOf(ai_keywords, entry) /\ NamesTermOf(clinical_keywords, entry))

\* the ids of the records that main holds after the Screener: the accepted
\* and the returned list of identify_ai_content, the selected list, and the
\* items of the run document and of the page
OutputIds ==
    IdsOf(ai_entries) \cup IdsOf(c_ret) \cup IdsOf(selected_articles)
        \cup IdsOf(brief_file.items) \cup IdsOf(html_file.items)

\* C13: for a candidate that the Screener rejects the classification service
\* is never called, and the candidate is in no list that identify_ai_content
\* builds or returns and in no output that main writes.
C13_RejectedNeverClassifiedNorOutput ==
    \A p \in 1..Len(entries) :
        RejectedByScreener(entries[p]) =>
            /\ calls[p] = 0
            /\ entries[p].id \notin OutputIds

\* main wrote a page with an item after fetch_feeds had returned a candidate
\* that the Screener rejects, which stood before the candidate of the item
C13_Witness ==
    /\ m_pc = "done"
    /\ html_file.items # <<>>
    /\ \E p, q \in 1..Len(entries) :
           /\ p < q
           /\ RejectedByScreener(entries[p])
           /\ entries[q].id \in IdsOf(html_file.items)

\* OPENROUTER_API_KEY is not set, or set to the empty text
CredentialMissing == api_key = Unset \/ api_key = ""

\* nothing of the run has happened: no source was asked, no call was made to
\* the classification service, no file was written
NothingStarted ==
    /\ f_pc = "idle" /\ f_step = 1 /\ f_log = <<>> /\ all_entries = <<>>
    /\ c_pc = "idle" /\ calls = <<>> /\ c_log = EmptyBag
    /\ ~brief_file.written
    /\ ~html_file.written

\* without the credential the first step of main is its last: it raises
FailsAtStart ==
    (CredentialMissing /\ m_pc = "start") => (m_pc' = "raised" /\ NothingStarted')

\* C14: when OPENROUTER_API_KEY is missing, main raises at its first step,
\* before any source is asked, before any call to the classification service
\* and before the run document or the page is written, and nothing of this
\* happens afterwards.
C14_MissingKeyFailsBeforeAnyWork ==
    /\ [](CredentialMissing => (m_pc \in {"start", "raised"} /\ NothingStarted))
    /\ [][FailsAtStart]_vars

\* main has raised for a key that is set to the empty text
C14_Witness ==
    /\ m_pc = "raised"
    /\ api_key = ""
    /\ NothingStarted

\* the scratch fields of the Ranker
ScoreFields == {"_ranking_score", "_relevance_score", "_recency_score"}

\* no record of the list has a scratch field
NoScores(es) == \A k \in 1..Len(es) : DOMAIN es[k] \cap ScoreFields = {}

\* C17: the records of the list _rank_articles returned carry no composite,
\* relevance or recency score field, and neither do the records of the run
\* document that save_brief_data writes in a run of main.
C17_NoScoreFieldsAfterRanking ==
    /\ c_pc = "returned" => NoScores(c_ret)
    /\ NoScores(selected_articles)
    /\ brief_file.written => NoScores(brief_file.items)

\* main wrote a run document with the two records that _rank_articles had
\* ranked
C17_Witness ==
    /\ brief_file.written
    /\ Len(c_ret) = 2
    /\ Len(brief_file.items) = 2
    /\ IdsOf(brief_file.items) = IdsOf(c_ret)

\* C20: the run document that save_brief_data writes has total_items equal to
\* the length of its items, items equal to the list it was given, record by
\* record in the same order, and brief_date equal to the brief_date of the
\* processor.
C20_RunDocumentMatchesEntries ==
    brief_file.written =>
        /\ brief_file.total_items = Len(brief_file.items)
        /\ brief_file.items = selected_articles
        /\ brief_file.brief_date = brief_date
        /\ brief_date \in Days

\* save_brief_data wrote a document of two items
C20_Witness ==
    /\ m_pc = "generate_html"
    /\ brief_file.written
    /\ brief_file.total_items = 2
    /\ Len(selected_articles) = 2

\* select_articles has returned
Selected == m_pc \in {"save_brief_data", "generate_html", "done"}

\* the position of the record of an id in the list identify_ai_content
\* returned
RankOf(id) == CHOOSE k \in 1..Len(c_ret) : c_ret[k].id = id

\* C30: the list select_articles returns in main holds exactly the records
\* identify_ai_content accepted, no record has an earlier pub_date than a
\* record after it, and records of equal pub_date stand in the order of
\* _rank_articles, which is that of their composite scores.
C30_SelectedIsAcceptedByDate ==
    Selected =>
        /\ Len(selected_articles) = Len(ai_entries)
        /\ Range(selected_articles) = Range(ai_entries)
        /\ \A j, k \in 1..Len(selected_articles) :
               j < k =>
                   /\ ~IsoTextLess(selected_articles[j].pub_date,
                                   selected_articles[k].pub_date)
                   /\ selected_articles[j].pub_date = selected_articles[k].pub_date
                          => /\ RankOf(selected_articles[j].id)
                                    < RankOf(selected_articles[k].id)
                             /\ CompositeOf(selected_articles[j])
                                    >= CompositeOf(selected_articles[k])

\* main selected three records: the two of equal pub_date stand first, the
\* later accepted of them in front because its composite score is higher, and
\* the oldest record, which _rank_articles had put between them, stands last
C30_Witness ==
    /\ Selected
    /\ Len(selected_articles) = 3
    /\ selected_articles[1].pub_date = selected_articles[2].pub_date
    /\ selected_articles[1].id > selected_articles[2].id
    /\ CompositeOf(selected_articles[1]) > CompositeOf(selected_articles[2])
    /\ RankOf(selected_articles[3].id) < 3

====
